---- MODULE Spec2Model ----
(***************************************************************************)
(* State-machine model of the playwright-rust connection core:             *)
(*   Context (strong object table, pending-call table, dispatch),          *)
(*   Connection (background read loop, teardown),                          *)
(*   Transport (length-prefixed framing), Browser::new_context.            *)
(***************************************************************************)
EXTENDS Integers, Sequences, FiniteSets, TLC

\* ------------------------------------------------------------------ bounds
MaxCalls == 2   \* send_message calls issued on one Context
MaxWire == 1    \* frames the driver has written that the loop has not read yet
MaxGuids == 2   \* remote objects the driver creates, besides the root
MaxNew == 1     \* Browser::new_context calls
MaxFrames == 2  \* payloads framed onto the child's stdout
MaxLen == 2     \* bytes of one payload
MaxSubs == 2    \* subscribe_event calls on one node
MaxEmit == 3    \* events one node emits
Capacity == 2   \* values a broadcast channel retains for a receiver that lags
StdinCap == 1   \* requests the child's stdin pipe holds
MaxTimes == 2   \* largest `times` a route is registered with
MaxConnect == 2 \* connect_to_server calls on one WebSocketRoute

\* ------------------------------------------------------------------ state
VARIABLES
    objects,      \* Context.objects: guids held by the strong table
    heap,         \* every object constructed so far: guid -> ChannelOwner [typ, parent, children]
    bvar,         \* Browser.var of each Browser: guid -> [contexts, pending_context]
    id,           \* Context.id: last request id handed out
    callbacks,    \* Context.callbacks: request id -> WaitPlaces (index of the future)
    futures,      \* the WaitData of every call: place -> [state, cell, waker, woken, got]
    requests,     \* request ids whose frame reached the driver's stdin
    replied,      \* request id -> body of the Result frame the driver wrote (NoBody = none yet)
    issued,       \* number of guids the driver has handed out
    made,         \* request id -> guid of the BrowserContext the driver made for it (0 = none)
    wire,         \* frames on the child's stdout, oldest first
    driverAlive,  \* the child process is running
    loop,         \* the read-loop thread: [pc, response, err]
    should_stop,  \* Connection.should_stop
    conn,         \* Connection teardown: "live", "closing" (inside Drop), "dropped"
    gone,         \* guids a disposal has removed from the strong table (history)
    nc,           \* Browser::new_context calls: [pc, browser, existing, id, rx, outcome, res, ret]
    pipe,         \* bytes on the child's stdout that no read has returned yet
    buf,          \* Reader.buf
    sent,         \* the payloads framed onto the child's stdout, in order (history)
    got,          \* the payloads try_read returned as Some, in order (history)
    etx,          \* the node's tx slot: 0 (None) or the channel whose Sender it holds
    chan,         \* broadcast channel -> the values sent on it, oldest first
    subs,         \* subscribe_event call -> [pc, rx, next, recv, lost, since]
    emitted,      \* number of emit_event calls on the node (the k-th emits event k)
    lock,         \* the Context mutex: "free", or the thread that holds it
    stdin,        \* requests written to the child's stdin that the child has not read yet
    dout,         \* the frame the child is in the middle of writing to its stdout (or NoFrame)
    connected,    \* Variable.connected of the WebSocketRoute
    cts,          \* connect_to_server calls: [pc, side, rank, id, ret]
    last          \* the operation the last step ran, with what it returned

graph == <<heap, bvar>>
table == <<id, callbacks>>
driver == <<requests, replied, issued, made, driverAlive>>
connection == <<should_stop, conn, gone>>
transport == <<pipe, buf, sent, got>>
emitter == <<etx, chan, subs, emitted>>
locking == <<lock, stdin, dout>>
wsroute == <<connected, cts>>
vars == <<objects, heap, bvar, id, callbacks, futures, requests, replied, issued, made, wire,
          driverAlive, loop, should_stop, conn, gone, nc, pipe, buf, sent, got,
          etx, chan, subs, emitted, lock, stdin, dout, connected, cts, last>>

\* ------------------------------------------------------------------ values
Root == 0                         \* the root object's guid ("")
Guids == 1..MaxGuids
AllGuids == 0..MaxGuids
Unknown == MaxGuids + 1           \* a guid that no creation message announces
\* The type tags of creation messages; "Bogus" is a tag the registry does not know.
Types == {"Browser", "BrowserContext", "Dialog", "Page", "Tracing", "APIRequestContext",
          "Route", "WebSocketRoute"}
Tags == {"Browser", "BrowserContext", "Dialog", "Bogus"}
Methods == {"close", "other"}      \* method names of ordinary events
NoRef == MaxGuids + 2             \* params of an event that name no object

NoNode == [typ |-> "", parent |-> Root, children |-> <<>>]
\* tracing, request_context: Variable of a BrowserContext (NoRef is None).
\* routes: Variable.routes of a BrowserContext; poisoned: a thread panicked with the
\* guard of `var` in its hands.
NoVar == [contexts |-> <<>>, pending_context |-> 0, pages |-> <<>>,
          tracing |-> NoRef, request_context |-> NoRef, routes |-> <<>>, poisoned |-> FALSE]
Places == 1..MaxCalls
\* The body of the Result frame answering request i: Ok(value) or Err(ErrorMessage),
\* either one particular to the request.
Bodies(i) == {<<"value", i>>, <<"error", i>>}
NoBody == <<"", 0>>

NoCell == [tag |-> "None", val |-> NoBody]
OkCell(body) == [tag |-> "Ok", val |-> body]    \* Ok(msg.body...) of dispatch
ErrCell(e) == [tag |-> "Err", val |-> <<e, 0>>]  \* Err(Arc<Error>) of notify_closed

NoFuture == [state |-> "none", cell |-> NoCell, waker |-> FALSE, woken |-> 0, got |-> NoCell]
NewFuture == [state |-> "alive", cell |-> NoCell, waker |-> FALSE, woken |-> 0, got |-> NoCell]
\* A WaitData that was dropped, or consumed by the await that returned `got`: its
\* cell and waker slot are freed.
Freed(state, value) == [state |-> state, cell |-> NoCell, waker |-> FALSE, woken |-> 0, got |-> value]

NoRx == [st |-> "none", val |-> 0]
NoNew == [pc |-> "idle", browser |-> 0, existing |-> <<>>, id |-> 0, rx |-> NoRx,
          outcome |-> "", res |-> NoCell, ret |-> <<"", 0>>, eventFirst |-> FALSE]

ResultFrame(i, body) == [kind |-> "Result", id |-> i, body |-> body]
CreateFrame(parent, typ, g, initOk) ==
    [kind |-> "Create", guid |-> parent, typ |-> typ, new |-> g, initOk |-> initOk,
     tracing |-> NoRef, request_context |-> NoRef]
\* The creation message of a BrowserContext whose initializer names its Tracing and
\* its APIRequestContext by guid.
ContextFrame(parent, g, tracing, request_context) ==
    [kind |-> "Create", guid |-> parent, typ |-> "BrowserContext", new |-> g, initOk |-> TRUE,
     tracing |-> tracing, request_context |-> request_context]
DisposeFrame(g) == [kind |-> "Dispose", guid |-> g]
EventFrame(g, method, ref) == [kind |-> "Event", guid |-> g, method |-> method, ref |-> ref]
NoFrame == [kind |-> "None"]
GarbageFrame == [kind |-> "Garbage"]

Idle == [pc |-> "read", response |-> GarbageFrame, err |-> ""]

\* evt: the events the step emitted to the subscribers of the addressed node.
\* spawn: the tasks the step handed to tokio::spawn.
Last(op, arg, ret) == [op |-> op, arg |-> arg, ret |-> ret, evt |-> <<>>, spawn |-> <<>>]
Quiet == Last("", 0, "")          \* a step of the caller or of the driver

\* ------------------------------------------------------------------ Context

\* respond_wait writing through a handle that no longer upgrades.
respond_wait_unchecked(fs, p, result) ==
    [fs EXCEPT ![p].cell = result, ![p].woken = IF fs[p].waker THEN 1 ELSE @]

\* Context::respond_wait on one WaitPlaces: both weak handles must upgrade (the
\* WaitData is alive); the cell is overwritten, and the stored waker, if any, woken.
respond_wait(fs, p, result) ==
    IF fs[p].state # "alive" THEN fs
    ELSE [fs EXCEPT ![p].cell = result,
                    ![p].woken = IF fs[p].waker THEN 1 ELSE @]

\* notify_closed walks every entry of callbacks.
RECURSIVE respond_all(_, _, _)
respond_all(fs, ids, result) ==
    IF ids = {} THEN fs
    ELSE LET i == CHOOSE x \in ids : TRUE
         IN respond_all(respond_wait(fs, callbacks[i], result), ids \ {i}, result)

\* An object whose last strong reference went with its table entry is freed: its
\* ChannelOwner is gone. A Browser (and its var) lives on while a new_context call
\* on it is running, since the caller holds an Arc of it.
Held(g) == \E k \in DOMAIN nc : nc[k].browser = g /\ nc[k].pc \notin {"idle", "done", "cancelled"}
free_heap(freed) == [g \in DOMAIN heap |-> IF g \in freed /\ ~Held(g) THEN NoNode ELSE heap[g]]
free_bvar(freed) == [g \in DOMAIN bvar |-> IF g \in freed /\ ~Held(g) THEN NoVar ELSE bvar[g]]

\* notify_closed that fails the calls but keeps the table.
notify_closed_keeps_table(e) ==
    /\ futures' = respond_all(futures, DOMAIN callbacks, ErrCell(e))
    /\ UNCHANGED <<objects, heap, bvar>>

\* Context::notify_closed
notify_closed(e) ==
    /\ futures' = respond_all(futures, DOMAIN callbacks, ErrCell(e))
    /\ objects' = {}
    /\ heap' = free_heap(objects)
    /\ bvar' = free_bvar(objects)

\* A lookup under a key one off the frame's id.
callback_key_shifted(msg) == (msg.id % MaxCalls) + 1

\* The key dispatch looks a Result up under.
callback_key(msg) == msg.id

\* A dispatch that drops a Result it finds no pending call for.
dispatch_result_ignores_unknown(msg) ==
    IF callback_key(msg) \notin DOMAIN callbacks
    THEN /\ UNCHANGED futures
         /\ loop' = [pc |-> "read", response |-> GarbageFrame, err |-> ""]
         /\ last' = Last("dispatch", msg, "Ok")
    ELSE /\ futures' = respond_wait(futures, callbacks[callback_key(msg)], OkCell(msg.body))
         /\ loop' = [pc |-> "read", response |-> GarbageFrame, err |-> ""]
         /\ last' = Last("dispatch", msg, "Ok")

\* A dispatch that takes a remote-reported error for a failure of the connection.
dispatch_result_error_fatal(msg) ==
    IF callback_key(msg) \notin DOMAIN callbacks \/ msg.body[1] = "error"
    THEN /\ UNCHANGED futures
         /\ loop' = [pc |-> "failed", response |-> GarbageFrame, err |-> "CallbackNotFound"]
         /\ last' = Last("dispatch", msg, "CallbackNotFound")
    ELSE /\ futures' = respond_wait(futures, callbacks[callback_key(msg)], OkCell(msg.body))
         /\ loop' = [pc |-> "read", response |-> GarbageFrame, err |-> ""]
         /\ last' = Last("dispatch", msg, "Ok")

\* A dispatch that would fail on a Result whose caller has dropped its future.
dispatch_result_dropped_fatal(msg) ==
    IF callback_key(msg) \notin DOMAIN callbacks
    THEN /\ UNCHANGED futures
         /\ loop' = [pc |-> "failed", response |-> GarbageFrame, err |-> "CallbackNotFound"]
         /\ last' = Last("dispatch", msg, "CallbackNotFound")
    ELSE IF futures[callbacks[callback_key(msg)]].state # "alive"
    THEN /\ UNCHANGED futures
         /\ loop' = [pc |-> "failed", response |-> GarbageFrame, err |-> "ReceiverClosed"]
         /\ last' = Last("dispatch", msg, "ReceiverClosed")
    ELSE /\ futures' = respond_wait(futures, callbacks[callback_key(msg)], OkCell(msg.body))
         /\ loop' = Idle
         /\ last' = Last("dispatch", msg, "Ok")

\* Context::dispatch, Res::Result arm
dispatch_result(msg) ==
    IF callback_key(msg) \notin DOMAIN callbacks
    THEN /\ UNCHANGED futures
         /\ loop' = [pc |-> "failed", response |-> GarbageFrame, err |-> "CallbackNotFound"]
         /\ last' = Last("dispatch", msg, "CallbackNotFound")
    ELSE /\ futures' = respond_wait(futures, callbacks[callback_key(msg)], OkCell(msg.body))
         /\ loop' = Idle
         /\ last' = Last("dispatch", msg, "Ok")

\* ------------------------------------------------------------------ object graph

\* Weak::upgrade of a handle to object g: the strong table holds the only strong
\* reference.
upgrade(objs, g) == g \in objs

\* A step of dispatch that returns Err(e): the loop's closure ends with that error.
Failed(e) == [pc |-> "failed", response |-> GarbageFrame, err |-> e]

\* RemoteArc::try_new: the closed tag -> constructor registry. Browser::try_new and
\* BrowserContext::try_new parse the initializer; Dialog::new cannot fail.
try_new(typ, initOk) ==
    IF typ \notin Types THEN "InvalidParams"
    ELSE IF typ \in {"Browser", "BrowserContext"} /\ ~initOk THEN "Serde"
    ELSE "Ok"

\* ChannelOwner::push_child
push_child(h, parent, g) == [h EXCEPT ![parent].children = Append(@, g)]

\* Browser::push_context
push_context(bv, b, c) == [bv EXCEPT ![b].contexts = Append(@, c)]

\* The creation branch registers a BrowserContext only under a Browser parent.
is_browser_ctx(typ, parentTyp) == typ = "BrowserContext" /\ parentTyp = "Browser"

\* A try_lock that would succeed for the thread that already holds the mutex.
try_lock_reentrant(holder) == holder \in {"free", "loop"}

\* Mutex::try_lock: Ok only while no thread holds the mutex, the calling one included.
try_lock(holder) == holder = "free"

\* BrowserContext::try_new, one of the two and_then closures: the guid the
\* initializer names is looked up in the table, under a guard that try_lock gave.
lookup(named, typ) ==
    IF named # NoRef /\ try_lock(lock) /\ named \in objects /\ heap[named].typ = typ
    THEN named ELSE NoRef

\* The Variable BrowserContext::try_new builds for the context of a creation message.
with_var(bv, msg) ==
    IF msg.typ # "BrowserContext" THEN bv
    ELSE [bv EXCEPT ![msg.new].tracing = lookup(msg.tracing, "Tracing"),
                    ![msg.new].request_context = lookup(msg.request_context, "APIRequestContext")]

\* History for new_context call k: the creation event of the context the driver made
\* for its request is being dispatched while the call is past its send and the
\* Result of the request has not been dispatched.
EventFirst(k, g) ==
    /\ nc[k].pc \in {"set_pending", "await"}
    /\ made[nc[k].id] = g
    /\ futures[callbacks[nc[k].id]].cell = NoCell

\* A creation that would attach the new guid to its parent before the proxy is built.
create_under_attach_first(msg) ==
    LET parent == msg.guid
        g == msg.new
        built == try_new(msg.typ, msg.initOk)
        tx == bvar[parent].pending_context
    IN  IF built # "Ok"
        THEN /\ heap' = push_child(heap, parent, g)
             /\ UNCHANGED <<objects, bvar, nc>>
             /\ loop' = Failed(built)
             /\ last' = Last("dispatch", msg, built)
        ELSE /\ heap' = push_child([heap EXCEPT ![g] = [typ |-> msg.typ, parent |-> parent,
                                                        children |-> <<>>]], parent, g)
             /\ IF is_browser_ctx(msg.typ, heap[parent].typ)
                THEN \* push_context, then take_pending_context_sender and tx.send(weak)
                     /\ bvar' = [push_context(with_var(bvar, msg), parent, g)
                                    EXCEPT ![parent].pending_context = 0]
                     /\ nc' = [k \in DOMAIN nc |->
                                [nc[k] EXCEPT
                                   !.rx = IF k = tx /\ @.st = "empty"
                                          THEN [st |-> "value", val |-> g] ELSE @,
                                   \* history: this call's creation event is dispatched
                                   \* after its request was sent and before its Result
                                   !.eventFirst = @ \/ EventFirst(k, g)]]
                ELSE bvar' = with_var(bvar, msg) /\ UNCHANGED nc
             /\ objects' = objects \cup {g}
             /\ loop' = Idle
             /\ last' = Last("dispatch", msg, "Ok")

\* create_remote_object past the parent lookup: construct the proxy, attach it to the
\* parent, register a BrowserContext with its Browser, insert it in the table.
create_under(msg) ==
    LET parent == msg.guid
        g == msg.new
        built == try_new(msg.typ, msg.initOk)
        tx == bvar[parent].pending_context
    IN  IF built # "Ok"
        THEN /\ UNCHANGED <<objects, heap, bvar, nc>>
             /\ loop' = Failed(built)
             /\ last' = Last("dispatch", msg, built)
        ELSE /\ heap' = push_child([heap EXCEPT ![g] = [typ |-> msg.typ, parent |-> parent,
                                                        children |-> <<>>]], parent, g)
             /\ IF is_browser_ctx(msg.typ, heap[parent].typ)
                THEN \* push_context, then take_pending_context_sender and tx.send(weak)
                     /\ bvar' = [push_context(with_var(bvar, msg), parent, g)
                                    EXCEPT ![parent].pending_context = 0]
                     /\ nc' = [k \in DOMAIN nc |->
                                [nc[k] EXCEPT
                                   !.rx = IF k = tx /\ @.st = "empty"
                                          THEN [st |-> "value", val |-> g] ELSE @,
                                   \* history: this call's creation event is dispatched
                                   \* after its request was sent and before its Result
                                   !.eventFirst = @ \/ EventFirst(k, g)]]
                ELSE bvar' = with_var(bvar, msg) /\ UNCHANGED nc
             /\ objects' = objects \cup {g}
             /\ loop' = Idle
             /\ last' = Last("dispatch", msg, "Ok")

\* A creation that inserts the object before it looks the parent up.
create_remote_object_insert_first(msg) ==
    IF msg.guid \notin objects
    THEN /\ objects' = objects \cup {msg.new}
         /\ UNCHANGED <<heap, bvar, nc>>
         /\ loop' = Failed("ObjectNotFound")
         /\ last' = Last("dispatch", msg, "ObjectNotFound")
    ELSE create_under(msg)

\* A creation that would accept a parent that was disposed, as long as its guid
\* was once announced.
create_remote_object_any_parent(msg) ==
    IF msg.guid \notin AllGuids
    THEN /\ UNCHANGED <<objects, heap, bvar, nc>>
         /\ loop' = Failed("ObjectNotFound")
         /\ last' = Last("dispatch", msg, "ObjectNotFound")
    ELSE create_under(msg)

\* Context::create_remote_object
create_remote_object(msg) ==
    IF msg.guid \notin objects
    THEN /\ UNCHANGED <<objects, heap, bvar, nc>>
         /\ loop' = Failed("ObjectNotFound")
         /\ last' = Last("dispatch", msg, "ObjectNotFound")
    ELSE create_under(msg)

\* Context::dispose: the children that still upgrade first, in list order, then the
\* node itself. The result carries the table and the guids removed, in removal order.
RECURSIVE dispose(_, _)
RECURSIVE dispose_children(_, _, _)
remove_object(st, i) == [objs |-> st.objs \ {i}, removed |-> Append(st.removed, i)]
\* A disposal that forgets the children.
dispose_shallow(st, i) == IF i \in st.objs THEN remove_object(st, i) ELSE st
\* A disposal that would remove the node before its children.
dispose_top_down(st, i) ==
    IF i \notin st.objs THEN st
    ELSE dispose_children(remove_object(st, i), heap[i].children, 1)
dispose(st, i) ==
    IF i \notin st.objs THEN st
    ELSE remove_object(dispose_children(st, heap[i].children, 1), i)
dispose_children(st, cs, k) ==
    IF k > Len(cs) THEN st
    ELSE dispose_children(IF upgrade(st.objs, cs[k]) THEN dispose(st, cs[k]) ELSE st, cs, k + 1)

\* Browser::remove_context: drop the first entry that is this context.
RECURSIVE remove_one(_, _)
remove_one(list, c) ==
    IF list = <<>> THEN <<>>
    ELSE IF Head(list) = c THEN Tail(list)
    ELSE <<Head(list)>> \o remove_one(Tail(list), c)

\* BrowserContext::on_close
on_close(g) ==
    LET b == heap[g].parent
    IN  IF heap[b].typ = "Browser" /\ upgrade(objects, b)
        THEN bvar' = [bvar EXCEPT ![b].contexts = remove_one(@, g)]
        ELSE UNCHANGED bvar

\* BrowserContext::push_page
push_page(bv, c, p) == [bv EXCEPT ![c].pages = Append(@, p)]

\* What the handler of object g returns for an event: the "page" handler of a
\* BrowserContext needs a guid in the params (guid_from_keys) that names a Page in
\* the table (get_object!), the "route" handler one that names a Route; the other
\* handlers modelled cannot fail.
handler_result(g, method, ref) ==
    IF heap[g].typ = "BrowserContext" /\ method = "page"
    THEN IF ref = NoRef THEN "InvalidParams"
         ELSE IF ref \notin objects \/ heap[ref].typ # "Page" THEN "ObjectNotFound"
         ELSE "Ok"
    ELSE IF heap[g].typ = "BrowserContext" /\ method = "route"
    THEN IF ref = NoRef THEN "InvalidParams"
         ELSE IF ref \notin objects \/ heap[ref].typ # "Route" THEN "ObjectNotFound"
         ELSE "Ok"
    ELSE "Ok"

\* Option<u32>::None of RouteEntry.times
None == 0 - 1

\* RouteEntry; n and started are history: the times given at registration and the
\* number of times the handler was started.
RouteEntry(pattern, handler, times) ==
    [pattern |-> pattern, handler |-> handler, times |-> times, n |-> times, started |-> 0]

\* tokio::spawn needs the runtime context of the calling thread: the tasks of the
\* callers have it, the read loop is a plain std::thread (Connection::start) and
\* has none, and tokio::spawn panics there.
in_runtime(thread) == thread # "loop"

\* The route list after on_route / handle_route_from_page ran on `thread`: the last
\* entry is taken; with times <= 1 it is popped, else its times is decremented. The
\* history of the taken entry counts the start of its handler when the spawn went
\* through.
on_route(routes, thread) ==
    IF routes = <<>> THEN routes
    ELSE LET e == routes[Len(routes)]
             counted == IF in_runtime(thread)
                        THEN [routes EXCEPT ![Len(routes)].started = @ + 1] ELSE routes
         IN  IF e.times = None THEN counted
             ELSE IF e.times <= 1 THEN SubSeq(counted, 1, Len(counted) - 1)
             ELSE [counted EXCEPT ![Len(counted)].times = @ - 1]

\* The tasks on_route spawns for context g: the handler of the last entry with the
\* route, or the route's fallback when the list is empty (the Route upgrades: it is
\* in the table); none when the handler returned Err before.
on_route_spawn(g, method, route, thread) ==
    LET routes == bvar[g].routes
    IN
    IF heap[g].typ # "BrowserContext" \/ method # "route"
       \/ handler_result(g, method, route) # "Ok" \/ ~in_runtime(thread) THEN <<>>
    ELSE IF routes # <<>>
         THEN <<[task |-> "handler", handler |-> routes[Len(routes)].handler, route |-> route]>>
    ELSE <<[task |-> "fallback", handler |-> 0, route |-> route]>>

\* Whether the handler of the event panics on the dispatching thread.
handler_panics(g, method, ref) ==
    /\ heap[g].typ = "BrowserContext" /\ method = "route"
    /\ handler_result(g, method, ref) = "Ok"
    /\ ~in_runtime("loop")


\* The events the handler of object g passes to emit_event: Evt::Page after push_page;
\* Evt::Close at the end of on_close, which returns before it when the context has no
\* Browser or its Browser does not upgrade; Evt::Route at the end of on_route.
handler_events(g, method, ref) ==
    IF handler_result(g, method, ref) # "Ok" \/ heap[g].typ # "BrowserContext" THEN <<>>
    ELSE IF method = "page" THEN <<"Page">>
    ELSE IF method = "route" THEN IF handler_panics(g, method, ref) THEN <<>> ELSE <<"Route">>
    ELSE IF method = "close"
         THEN IF heap[heap[g].parent].typ = "Browser" /\ upgrade(objects, heap[g].parent)
              THEN <<"Close">> ELSE <<>>
    ELSE <<>>

\* RemoteObject::handle_event of the addressed object
handle_event(g, method, ref) ==
    IF handler_result(g, method, ref) # "Ok" THEN UNCHANGED bvar
    ELSE IF heap[g].typ = "BrowserContext" /\ method = "close" THEN on_close(g)
    ELSE IF heap[g].typ = "BrowserContext" /\ method = "page"
         THEN bvar' = push_page(bvar, g, ref)
    ELSE IF heap[g].typ = "BrowserContext" /\ method = "route"
         THEN bvar' = [bvar EXCEPT ![g].routes = on_route(@, "loop"),
                                   ![g].poisoned = @ \/ (bvar[g].routes # <<>> /\ ~in_runtime("loop"))]
    ELSE UNCHANGED bvar

\* A request as the driver reads it from its stdin.
Request(i, method, guid) == [id |-> i, method |-> method, guid |-> guid]

\* A send that would number every request 1.
send_message_same_id(method, guid) ==
    /\ id' = 1
    /\ callbacks' = [k \in DOMAIN callbacks \cup {1} |-> 1]
    /\ futures' = [futures EXCEPT ![1] = IF driverAlive THEN NewFuture
                                        ELSE Freed("dropped", NoCell)]
    /\ requests' = IF driverAlive THEN requests \cup {Request(1, method, guid)}
                   ELSE requests

\* Context::send_message: the next id, a pending-call record under it, then the frame
\* write, which fails when the child's stdin is closed.
send_message(method, guid) ==
    /\ id' = id + 1
    /\ callbacks' = [k \in DOMAIN callbacks \cup {id + 1} |->
                        IF k = id + 1 THEN id + 1 ELSE callbacks[k]]
    /\ futures' = [futures EXCEPT ![id + 1] = IF driverAlive THEN NewFuture
                                              ELSE Freed("dropped", NoCell)]
    /\ requests' = IF driverAlive THEN requests \cup {Request(id + 1, method, guid)}
                   ELSE requests

\* A call of some method on the root object (as Connection::send_initialize).
SendMessage ==
    /\ id < MaxCalls
    /\ conn # "dropped"
    /\ send_message("call", Root)
    /\ last' = Last("send_message", id + 1, IF driverAlive THEN "Ok" ELSE "Io")
    /\ UNCHANGED <<wsroute, locking, emitter, transport, objects, graph, replied, issued, made, driverAlive, wire, loop, connection, nc>>

\* ------------------------------------------------------------------ WaitData (caller side)

\* Future::poll of a WaitData: Ready with the cell's value, else store the waker.
PollFuture(p) ==
    /\ futures[p].state = "alive"
    /\ IF futures[p].cell # NoCell
       THEN futures' = [futures EXCEPT ![p] = Freed("done", futures[p].cell)]
       ELSE futures' = [futures EXCEPT ![p].waker = TRUE]
    /\ last' = Quiet
    /\ UNCHANGED <<wsroute, locking, emitter, transport, objects, graph, table, driver, wire, loop, connection, nc>>

\* The caller drops the WaitData before it resolved.
DropFuture(p) ==
    /\ futures[p].state = "alive"
    /\ futures' = [futures EXCEPT ![p] = Freed("dropped", NoCell)]
    /\ last' = Quiet
    /\ UNCHANGED <<wsroute, locking, emitter, transport, objects, graph, table, driver, wire, loop, connection, nc>>

\* ------------------------------------------------------------------ BrowserContext routes

\* RoutePattern::Glob(g) and RoutePattern::Regex(source, flags); a String is the
\* sequence of its characters.
Glob(g) == [kind |-> "Glob", glob |-> g, source |-> <<>>, flags |-> <<>>]
Regex(source, flags) == [kind |-> "Regex", glob |-> <<>>, source |-> source, flags |-> flags]

\* The key of the dedup in route_patterns: format!("g:{}", g), format!("r:{}/{}", s, f)
pattern_key(p) ==
    IF p.kind = "Glob" THEN <<"g", ":">> \o p.glob
    ELSE <<"r", ":">> \o p.source \o <<"/">> \o p.flags

\* patterns.retain(|p| seen.insert(key(p))): a pattern stays when its key is new.
RECURSIVE retain_unseen(_, _)
retain_unseen(patterns, seen) ==
    IF patterns = <<>> THEN <<>>
    ELSE IF pattern_key(Head(patterns)) \in seen THEN retain_unseen(Tail(patterns), seen)
    ELSE <<Head(patterns)>> \o retain_unseen(Tail(patterns), seen \cup {pattern_key(Head(patterns))})

\* BrowserContext::route_patterns
route_patterns(routes) == retain_unseen([k \in 1..Len(routes) |-> routes[k].pattern], {})

\* The body shared by route, route_regex and route_with_times_glob on context c:
\* push the entry, then send route_patterns() as setNetworkInterceptionPatterns. The
\* handler is the closure of this call, numbered by its place in the list. Calls
\* made after the loop thread died are left out.
push_route(c, pattern, times) ==
    /\ c \in objects /\ heap[c].typ = "BrowserContext"
    /\ ~bvar[c].poisoned /\ loop.pc # "panicked"
    /\ id < MaxCalls
    /\ conn # "dropped"
    /\ bvar' = [bvar EXCEPT ![c].routes =
                                Append(@, RouteEntry(pattern, Len(@) + 1, times))]
    /\ send_message("setNetworkInterceptionPatterns", c)
    /\ last' = Last("route", c, route_patterns(bvar'[c].routes))
    /\ UNCHANGED <<wsroute, locking, emitter, transport, objects, heap, replied, issued, made, driverAlive,
                   wire, loop, connection, nc>>

\* BrowserContext::route
Route(c, glob) == push_route(c, Glob(glob), None)

\* BrowserContext::route_regex
RouteRegex(c, regex_source, regex_flags) == push_route(c, Regex(regex_source, regex_flags), None)

\* BrowserContext::route_with_times_glob
RouteWithTimesGlob(c, glob, times) == push_route(c, Glob(glob), times)

\* ------------------------------------------------------------------ WebSocketRoute

\* A connect_to_server call that has not started. rank is history: the place of the
\* call among those that took the lock of `var` (one more than the calls ranked so far).
NoConnect == [pc |-> "idle", side |-> "", rank |-> 0, id |-> 0, ret |-> ""]

\* A connect_to_server that would test the flag and leave it as it is.
ConnectToServerNoSet(k, w, side) ==
    /\ cts[k].pc = "idle"
    /\ UNCHANGED connected
    /\ cts' = [cts EXCEPT ![k] =
                  IF side = "Server"
                  THEN [NoConnect EXCEPT !.pc = "done", !.side = side, !.ret = "InvalidParams"]
                  ELSE IF ~upgrade(objects, w)
                  THEN [NoConnect EXCEPT !.pc = "done", !.side = side, !.ret = "ObjectNotFound"]
                  ELSE IF connected
                  THEN [NoConnect EXCEPT !.pc = "done", !.side = side, !.rank = Cardinality({j \in DOMAIN cts : cts[j].rank # 0}) + 1,
                                         !.ret = "InvalidParams"]
                  ELSE [NoConnect EXCEPT !.pc = "send", !.side = side, !.rank = Cardinality({j \in DOMAIN cts : cts[j].rank # 0}) + 1]]
    /\ last' = Quiet
    /\ UNCHANGED <<locking, emitter, transport, objects, graph, table, futures, driver, wire, loop,
                   connection, nc>>

\* api::WebSocketRoute::connect_to_server on a handle of side `side` for object w,
\* up to the end of the block that holds the lock of `var`: the server side is
\* refused, the handle is upgraded, the flag is tested and set.
ConnectToServer(k, w, side) ==
    /\ cts[k].pc = "idle"
    /\ connected' = (connected \/ (side # "Server" /\ upgrade(objects, w)))
    /\ cts' = [cts EXCEPT ![k] =
                  IF side = "Server"
                  THEN [NoConnect EXCEPT !.pc = "done", !.side = side, !.ret = "InvalidParams"]
                  ELSE IF ~upgrade(objects, w)
                  THEN [NoConnect EXCEPT !.pc = "done", !.side = side, !.ret = "ObjectNotFound"]
                  ELSE IF connected
                  THEN [NoConnect EXCEPT !.pc = "done", !.side = side, !.rank = Cardinality({j \in DOMAIN cts : cts[j].rank # 0}) + 1,
                                         !.ret = "InvalidParams"]
                  ELSE [NoConnect EXCEPT !.pc = "send", !.side = side, !.rank = Cardinality({j \in DOMAIN cts : cts[j].rank # 0}) + 1]]
    /\ last' = Quiet
    /\ UNCHANGED <<locking, emitter, transport, objects, graph, table, futures, driver, wire, loop,
                   connection, nc>>

\* let _ = send_message!(self, "connect", Map::new()); Ok(())
ConnectSend(k, w) ==
    /\ cts[k].pc = "send"
    /\ id < MaxCalls
    /\ send_message("connect", w)
    /\ cts' = [cts EXCEPT ![k].pc = "done", ![k].id = id + 1, ![k].ret = "Ok"]
    /\ last' = Last("send_message", id + 1, IF driverAlive THEN "Ok" ELSE "Io")
    /\ UNCHANGED <<connected, locking, emitter, transport, objects, graph, replied, issued, made,
                   driverAlive, wire, loop, connection, nc>>

\* ------------------------------------------------------------------ Browser::new_context

\* Whether `list` holds c (Weak::ptr_eq against each entry).
Holds(list, c) == \E j \in 1..Len(list) : list[j] = c

\* Dropping a oneshot Sender unsent closes its channel: the receiver, if it still
\* waits, resolves to Err.
drop_sender(calls, tx) ==
    IF tx # 0 /\ calls[tx].rx.st = "empty"
    THEN [calls EXCEPT ![tx].rx = [st |-> "closed", val |-> 0]]
    ELSE calls

\* The first entry of `after` that is not in `existing` (0 when there is none).
RECURSIVE first_new(_, _)
first_new(after, existing) ==
    IF after = <<>> THEN 0
    ELSE IF ~Holds(existing, Head(after)) THEN Head(after)
    ELSE first_new(Tail(after), existing)

\* The last child that upgrades to a BrowserContext (0 when there is none).
RECURSIVE last_context_child(_, _)
last_context_child(children, k) ==
    IF k = 0 THEN 0
    ELSE IF upgrade(objects, children[k]) /\ heap[children[k]].typ = "BrowserContext"
         THEN children[k]
    ELSE last_context_child(children, k - 1)

\* The BrowserContexts of the table whose parent is Browser b (list_objects order is
\* that of a HashMap: any of them may come first).
table_contexts(b) ==
    {g \in objects : heap[g].typ = "BrowserContext" /\ heap[g].parent = b
                     /\ heap[b].typ = "Browser" /\ upgrade(objects, b)}

\* A fallback that would not look at the browser's contexts list at all.
fallback_find_context_without_list(b, existing) ==
    LET c == last_context_child(heap[b].children, Len(heap[b].children))
    IN  IF c # 0 THEN {<<"Ok", c>>}
        ELSE IF conn # "dropped" /\ table_contexts(b) # {}
             THEN {<<"Ok", g>> : g \in table_contexts(b)}
        ELSE {<<"Err", "Timeout">>}

fallback_find_context(b, existing) ==
    LET a == first_new(bvar[b].contexts, existing)
        c == last_context_child(heap[b].children, Len(heap[b].children))
    IN  IF a # 0 THEN {<<"Ok", a>>}
        ELSE IF c # 0 THEN {<<"Ok", c>>}
        ELSE IF conn # "dropped" /\ table_contexts(b) # {}
             THEN {<<"Ok", g>> : g \in table_contexts(b)}
        ELSE {<<"Err", "Timeout">>}

\* new_context, first statement: existing = self.contexts()
NewContextStart(k, b) ==
    /\ nc[k].pc = "idle"
    /\ \A j \in 1..(k - 1) : nc[j].pc # "idle"
    /\ b \in objects /\ heap[b].typ = "Browser"
    /\ id < MaxCalls
    /\ nc' = [nc EXCEPT ![k] = [NoNew EXCEPT !.pc = "send", !.browser = b,
                                             !.existing = bvar[b].contexts]]
    /\ last' = Quiet
    /\ UNCHANGED <<wsroute, locking, emitter, transport, objects, graph, table, futures, driver, wire, loop, connection>>

\* self.channel().send_message(req).await?
NewContextSend(k) ==
    /\ nc[k].pc = "send"
    /\ IF conn = "dropped"
       THEN /\ nc' = [nc EXCEPT ![k].pc = "done", ![k].ret = <<"Err", "ObjectNotFound">>]
            /\ UNCHANGED <<table, futures, requests>>
       ELSE /\ send_message("newContext", nc[k].browser)
            /\ nc' = IF driverAlive
                     THEN [nc EXCEPT ![k].pc = "set_pending", ![k].id = id + 1]
                     ELSE [nc EXCEPT ![k].pc = "done", ![k].id = id + 1,
                                     ![k].ret = <<"Err", "Io">>]
    /\ last' = Last("send_message", id + 1, IF driverAlive THEN "Ok" ELSE "Io")
    /\ UNCHANGED <<wsroute, locking, emitter, transport, objects, graph, replied, issued, made, driverAlive, wire, loop, connection>>

\* let (tx, rx) = oneshot::channel(); self.set_pending_context_sender(tx)
NewContextSetPending(k) ==
    /\ nc[k].pc = "set_pending"
    /\ bvar' = [bvar EXCEPT ![nc[k].browser].pending_context = k]
    /\ nc' = [drop_sender(nc, bvar[nc[k].browser].pending_context)
                 EXCEPT ![k].pc = "await", ![k].rx = [st |-> "empty", val |-> 0]]
    /\ last' = Quiet
    /\ UNCHANGED <<wsroute, locking, emitter, transport, objects, heap, table, futures, driver, wire, loop, connection>>

\* timeout(30 s, select! { fut, rx }).await: a branch that is ready wins (either one
\* when both are); the deadline passes only while neither is.
NewContextAwait(k, outcome) ==
    LET p == callbacks[nc[k].id]
        ready == {"Result" : x \in {1} \cap {y \in {1} : futures[p].cell # NoCell}}
                 \cup {"Context" : x \in {1} \cap {y \in {1} : nc[k].rx.st # "empty"}}
    IN  /\ nc[k].pc = "await"
        /\ outcome \in (IF ready = {} THEN {"Timeout"} ELSE ready)
        /\ nc' = [nc EXCEPT ![k].pc = "clear", ![k].outcome = outcome,
                            ![k].res = IF outcome = "Result" THEN futures[p].cell ELSE NoCell]
        /\ futures' = [futures EXCEPT ![p] = IF outcome = "Result"
                                             THEN Freed("done", futures[p].cell)
                                             ELSE Freed("dropped", NoCell)]
        /\ last' = Quiet
        /\ UNCHANGED <<wsroute, locking, emitter, transport, objects, graph, table, driver, wire, loop, connection>>

\* self.var.lock().unwrap().pending_context = None
NewContextClear(k) ==
    /\ nc[k].pc = "clear"
    /\ bvar' = [bvar EXCEPT ![nc[k].browser].pending_context = 0]
    /\ nc' = [drop_sender(nc, bvar[nc[k].browser].pending_context) EXCEPT ![k].pc = "finish"]
    /\ last' = Quiet
    /\ UNCHANGED <<wsroute, locking, emitter, transport, objects, heap, table, futures, driver, wire, loop, connection>>

\* What `match outcome` may return, before register_new_context.
new_context_result(k) ==
    LET b == nc[k].browser
        res == nc[k].res
    IN  IF nc[k].outcome = "Result"
        THEN IF res.tag = "Err" THEN {<<"Err", res.val[1]>>}
             ELSE IF res.val[1] = "error" THEN {<<"Err", "ErrorResponded">>}
             ELSE IF res.val[1] # "guid" THEN {<<"Err", "GuidNotFound">>}
             ELSE IF conn = "dropped" \/ res.val[2] \notin objects
                     \/ heap[res.val[2]].typ # "BrowserContext"
                  THEN {<<"Err", "ObjectNotFound">>}
             ELSE {<<"Ok", res.val[2]>>}
        ELSE IF nc[k].outcome = "Context" /\ nc[k].rx.st = "value"
        THEN {<<"Ok", nc[k].rx.val>>}
        ELSE fallback_find_context(b, nc[k].existing)

\* match outcome { ... }: the returned context is registered (pushed) once more.
NewContextFinish(k) ==
    /\ nc[k].pc = "finish"
    /\ \E ret \in new_context_result(k) :
          /\ nc' = [nc EXCEPT ![k].pc = "done", ![k].ret = ret]
          /\ bvar' = IF ret[1] = "Ok" THEN push_context(bvar, nc[k].browser, ret[2]) ELSE bvar
    /\ last' = Quiet
    /\ UNCHANGED <<wsroute, locking, emitter, transport, objects, heap, table, futures, driver, wire, loop, connection>>

\* The caller drops the new_context future while it awaits (a caller-side timeout).
NewContextCancel(k) ==
    /\ nc[k].pc \in {"send", "await"}
    /\ nc' = [nc EXCEPT ![k].pc = "cancelled", ![k].rx = NoRx]
    /\ futures' = IF nc[k].pc = "await"
                  THEN [futures EXCEPT ![callbacks[nc[k].id]] = Freed("dropped", NoCell)]
                  ELSE futures
    /\ last' = Quiet
    /\ UNCHANGED <<wsroute, locking, emitter, transport, objects, graph, table, driver, wire, loop, connection>>

\* ------------------------------------------------------------------ driver process

\* The driver can still be heard: it runs, the loop has not ended, and no frame
\* already on the wire stops the loop before a later one is read.
Audible ==
    /\ driverAlive
    /\ loop.pc \notin {"failed", "exited"}
    /\ Len(wire) < MaxWire
    /\ \A k \in 1..Len(wire) : wire[k].kind # "Garbage"

\* The child process exits: its end of the pipes closes.
DriverExit ==
    /\ driverAlive
    /\ driverAlive' = FALSE
    /\ last' = Quiet
    /\ UNCHANGED <<wsroute, locking, emitter, transport, objects, graph, table, futures, requests, replied, issued, made,
                   wire, loop, connection, nc>>

\* The driver answers a request it received, once.
DriverRespond(i, body) ==
    /\ Audible
    /\ Request(i, "call", Root) \in requests
    /\ replied[i] = NoBody
    /\ replied' = [replied EXCEPT ![i] = body]
    /\ wire' = Append(wire, ResultFrame(i, body))
    /\ last' = Quiet
    /\ UNCHANGED <<wsroute, locking, emitter, transport, objects, graph, table, futures, requests, issued, made, driverAlive, loop, connection, nc>>

\* The driver writes a Result whose id answers no request it received.
DriverStray(i, body) ==
    /\ Audible
    /\ \A r \in requests : r.id # i
    /\ wire' = Append(wire, ResultFrame(i, body))
    /\ last' = Quiet
    /\ UNCHANGED <<wsroute, locking, emitter, transport, objects, graph, table, futures, driver, loop, connection, nc>>

\* The driver writes a frame that does not decode.
DriverGarbage ==
    /\ Audible
    /\ wire' = Append(wire, GarbageFrame)
    /\ last' = Quiet
    /\ UNCHANGED <<wsroute, locking, emitter, transport, objects, graph, table, futures, driver, loop, connection, nc>>

\* The driver announces a new object under `parent`, with the next unused guid.
DriverCreate(parent, typ, initOk) ==
    /\ Audible
    /\ issued < MaxGuids
    /\ parent # issued + 1
    /\ initOk \/ typ \in {"Browser", "BrowserContext"}
    /\ issued' = issued + 1
    /\ wire' = Append(wire, CreateFrame(parent, typ, issued + 1, initOk))
    /\ last' = Quiet
    /\ UNCHANGED <<wsroute, locking, emitter, transport, objects, graph, table, futures, requests, replied, made, driverAlive, loop,
                   connection, nc>>

\* The driver announces a BrowserContext under `parent` whose initializer names
\* a tracing and a requestContext guid (NoRef: the field is absent).
DriverCreateContext(parent, tracing, request_context) ==
    /\ Audible
    /\ issued < MaxGuids
    /\ parent # issued + 1
    /\ issued' = issued + 1
    /\ wire' = Append(wire, ContextFrame(parent, issued + 1, tracing, request_context))
    /\ last' = Quiet
    /\ UNCHANGED <<wsroute, locking, emitter, transport, objects, graph, table, futures, requests, replied, made, driverAlive, loop,
                   connection, nc>>

\* The driver disposes an object it announced.
DriverDispose(g) ==
    /\ Audible
    /\ g \in 1..issued
    /\ wire' = Append(wire, DisposeFrame(g))
    /\ last' = Quiet
    /\ UNCHANGED <<wsroute, locking, emitter, transport, objects, graph, table, futures, driver, loop, connection, nc>>

\* The driver sends an ordinary event to an object it announced (a Page is announced
\* to its context once).
DriverEvent(g, method, ref) ==
    /\ Audible
    /\ g \in 1..issued
    /\ method = "page" => ~Holds(bvar[g].pages, ref)
    /\ wire' = Append(wire, EventFrame(g, method, ref))
    /\ last' = Quiet
    /\ UNCHANGED <<wsroute, locking, emitter, transport, objects, graph, table, futures, driver, loop, connection, nc>>

\* The driver, for a newContext request: the guid of the context it makes.
made_for(i) == IF made[i] # 0 THEN made[i] ELSE issued + 1

\* The driver announces the BrowserContext made for newContext request i.
DriverAnnounceContext(i) ==
    /\ Audible
    /\ \E r \in requests : r.id = i /\ r.method = "newContext"
    /\ made[i] # 0 \/ issued < MaxGuids
    /\ \A k \in 1..Len(wire) : ~(wire[k].kind = "Create" /\ wire[k].new = made[i])
    /\ ~(loop.response.kind = "Create" /\ loop.response.new = made[i])
    /\ made_for(i) \notin objects \cup gone
    /\ LET r == CHOOSE r \in requests : r.id = i
       IN wire' = Append(wire, CreateFrame(r.guid, "BrowserContext", made_for(i), TRUE))
    /\ made' = [made EXCEPT ![i] = made_for(i)]
    /\ issued' = IF made[i] # 0 THEN issued ELSE issued + 1
    /\ last' = Quiet
    /\ UNCHANGED <<wsroute, locking, emitter, transport, objects, graph, table, futures, requests, replied, driverAlive, loop,
                   connection, nc>>

\* The driver answers newContext request i with the guid of the context.
DriverRespondContext(i) ==
    /\ Audible
    /\ \E r \in requests : r.id = i /\ r.method = "newContext"
    /\ replied[i] = NoBody
    /\ made[i] # 0 \/ issued < MaxGuids
    /\ wire' = Append(wire, ResultFrame(i, <<"guid", made_for(i)>>))
    /\ replied' = [replied EXCEPT ![i] = <<"guid", made_for(i)>>]
    /\ made' = [made EXCEPT ![i] = made_for(i)]
    /\ issued' = IF made[i] # 0 THEN issued ELSE issued + 1
    /\ last' = Quiet
    /\ UNCHANGED <<wsroute, locking, emitter, transport, objects, graph, table, futures, requests, driverAlive, loop, connection, nc>>

\* ------------------------------------------------------------------ Connection read loop

\* reader.try_read()? returning Some(frame), or the decode error of a bad frame; once
\* the child has exited and its output is drained, the read returns zero bytes and
\* try_read returns Ok(None): the loop `continue`s.
LoopRead ==
    /\ loop.pc = "read"
    /\ conn # "dropped"
    /\ IF wire = <<>>
       THEN /\ ~driverAlive
            /\ UNCHANGED <<wire, loop>>
            /\ last' = Last("try_read", 0, "None")
       ELSE /\ wire' = Tail(wire)
            /\ IF Head(wire).kind = "Garbage"
               THEN /\ loop' = [pc |-> "failed", response |-> GarbageFrame, err |-> "Serde"]
                    /\ last' = Last("try_read", 0, "Serde")
               ELSE /\ loop' = [pc |-> "check_stop", response |-> Head(wire), err |-> ""]
                    /\ last' = Last("try_read", 0, "Some")
    /\ UNCHANGED <<wsroute, locking, emitter, transport, objects, graph, table, futures, driver, connection, nc>>

\* The loop exits once the Connection is gone (its Weak handles no longer upgrade).
LoopBreak ==
    /\ loop.pc \in {"read", "check_stop", "dispatch", "failed"}
    /\ conn = "dropped"
    /\ loop' = [pc |-> "exited", response |-> GarbageFrame, err |-> ""]
    /\ last' = Quiet
    /\ UNCHANGED <<wsroute, locking, emitter, transport, objects, graph, table, futures, driver, wire, connection, nc>>

\* should_stop.load() after a frame was read. Past it the loop upgrades its handle
\* of the Context and dispatches: from here on a teardown no longer stops it.
LoopCheckStop ==
    /\ loop.pc = "check_stop"
    /\ conn # "dropped"
    /\ loop' = IF should_stop THEN [pc |-> "exited", response |-> GarbageFrame, err |-> ""]
               ELSE [loop EXCEPT !.pc = "dispatch"]
    /\ last' = Quiet
    /\ UNCHANGED <<wsroute, locking, emitter, transport, objects, graph, table, futures, driver, wire, connection, nc>>

\* ctx.dispatch(response)? of a Result frame, under the Context lock
LoopDispatchResult ==
    /\ loop.pc = "dispatch"
    /\ loop.response.kind = "Result"
    /\ dispatch_result(loop.response)
    /\ UNCHANGED <<wsroute, locking, emitter, transport, objects, graph, table, driver, wire, connection, nc>>

\* ctx.dispatch(response)? of a creation message
LoopDispatchCreate ==
    /\ loop.pc = "dispatch"
    /\ loop.response.kind = "Create"
    /\ create_remote_object(loop.response)
    /\ UNCHANGED <<wsroute, locking, emitter, transport, table, futures, driver, wire, connection>>

\* ctx.dispatch(response)? of a disposal message
LoopDispatchDispose ==
    /\ loop.pc = "dispatch"
    /\ loop.response.kind = "Dispose"
    /\ LET st == dispose([objs |-> objects, removed |-> <<>>], loop.response.guid)
       IN  /\ objects' = st.objs
           /\ heap' = free_heap(objects \ st.objs)
           /\ bvar' = free_bvar(objects \ st.objs)
           /\ gone' = gone \cup (objects \ st.objs)
           /\ last' = Last("dispatch", loop.response, st.removed)
    /\ loop' = Idle
    /\ UNCHANGED <<wsroute, locking, emitter, transport, table, futures, driver, wire, should_stop, conn, nc>>

\* A dispatch that passes the handler's error on with `?`.
dispatch_event_propagates(msg) ==
    IF msg.guid \in objects
    THEN /\ handle_event(msg.guid, msg.method, msg.ref)
         /\ loop' = IF handler_result(msg.guid, msg.method, msg.ref) = "Ok" THEN Idle
                    ELSE Failed(handler_result(msg.guid, msg.method, msg.ref))
         /\ last' = [Last("dispatch", msg, handler_result(msg.guid, msg.method, msg.ref))
                        EXCEPT !.evt = handler_events(msg.guid, msg.method, msg.ref)]
    ELSE /\ UNCHANGED bvar
         /\ loop' = Failed("ObjectNotFound")
         /\ last' = Last("dispatch", msg, "ObjectNotFound")

\* A dispatch that would skip an event whose target is not in the table.
dispatch_event_skips_unknown(msg) ==
    IF msg.guid \in objects
    THEN /\ handle_event(msg.guid, msg.method, msg.ref)
         \* a panic unwinds the loop thread: it neither reads on nor calls notify_closed
         /\ loop' = IF handler_panics(msg.guid, msg.method, msg.ref)
                    THEN [pc |-> "panicked", response |-> GarbageFrame, err |-> ""] ELSE Idle
         /\ last' = [Last("dispatch", msg,
                          IF handler_panics(msg.guid, msg.method, msg.ref) THEN "Panic"
                          ELSE IF handler_result(msg.guid, msg.method, msg.ref) = "Ok"
                          THEN "Handled" ELSE "Logged")
                        EXCEPT !.evt = handler_events(msg.guid, msg.method, msg.ref),
                               !.spawn = on_route_spawn(msg.guid, msg.method, msg.ref, "loop")]
    ELSE /\ UNCHANGED bvar
         /\ loop' = Idle
         /\ last' = Last("dispatch", msg, "Skipped")

\* Context::dispatch of an ordinary event: the target's handler, whose error is
\* logged and not returned, or ObjectNotFound when the guid is not in the table.
dispatch_event(msg) ==
    IF msg.guid \in objects
    THEN /\ handle_event(msg.guid, msg.method, msg.ref)
         \* a panic unwinds the loop thread: it neither reads on nor calls notify_closed
         /\ loop' = IF handler_panics(msg.guid, msg.method, msg.ref)
                    THEN [pc |-> "panicked", response |-> GarbageFrame, err |-> ""] ELSE Idle
         /\ last' = [Last("dispatch", msg,
                          IF handler_panics(msg.guid, msg.method, msg.ref) THEN "Panic"
                          ELSE IF handler_result(msg.guid, msg.method, msg.ref) = "Ok"
                          THEN "Handled" ELSE "Logged")
                        EXCEPT !.evt = handler_events(msg.guid, msg.method, msg.ref),
                               !.spawn = on_route_spawn(msg.guid, msg.method, msg.ref, "loop")]
    ELSE /\ UNCHANGED bvar
         /\ loop' = Failed("ObjectNotFound")
         /\ last' = Last("dispatch", msg, "ObjectNotFound")

\* ctx.dispatch(response)? of an ordinary event
LoopDispatchEvent ==
    /\ loop.pc = "dispatch"
    /\ loop.response.kind = "Event"
    /\ dispatch_event(loop.response)
    /\ UNCHANGED <<wsroute, locking, emitter, transport, objects, heap, table, futures, driver, wire, connection, nc>>

\* reader.try_read()? when the read of the pipe itself fails (stdout.read returns
\* Err): the closure returns that error.
LoopReadError ==
    /\ loop.pc = "read"
    /\ conn # "dropped"
    /\ loop' = Failed("Io")
    /\ last' = Last("try_read", 0, "Io")
    /\ UNCHANGED <<wsroute, locking, emitter, transport, objects, graph, table, futures, driver, wire, connection, nc>>

\* A loop that would drop the error of its closure and just end.
LoopExitSilently ==
    /\ loop.pc = "failed"
    /\ conn # "dropped"
    /\ loop' = [pc |-> "exited", response |-> GarbageFrame, err |-> loop.err]
    /\ last' = Quiet
    /\ UNCHANGED <<wsroute, locking, emitter, transport, objects, graph, table, futures, driver, wire, connection, nc>>

\* The loop's closure returned Err(e): ctx.notify_closed(e), then the thread ends.
LoopNotifyClosed ==
    /\ loop.pc = "failed"
    /\ conn # "dropped"
    /\ notify_closed(loop.err)
    /\ loop' = [pc |-> "exited", response |-> GarbageFrame, err |-> loop.err]
    /\ last' = Last("notify_closed", 0, loop.err)
    /\ UNCHANGED <<wsroute, locking, emitter, transport, table, driver, wire, connection, nc>>

\* Drop for Connection, first statement: self.notify_closed(Error::ReceiverClosed)
ConnDropNotify ==
    /\ conn = "live"
    /\ notify_closed("ReceiverClosed")
    /\ conn' = "closing"
    /\ last' = Last("notify_closed", 0, "ReceiverClosed")
    /\ UNCHANGED <<wsroute, locking, emitter, transport, table, driver, wire, loop, should_stop, gone, nc>>

\* Drop for Connection, second statement: should_stop.store(true); then the fields drop.
ConnDropStop ==
    /\ conn = "closing"
    /\ should_stop' = TRUE
    /\ conn' = "dropped"
    /\ last' = Quiet
    /\ UNCHANGED <<wsroute, locking, emitter, transport, objects, graph, table, futures, driver, wire, loop, gone, nc>>

\* ------------------------------------------------------------------ Transport

BUFSIZE == 30000                  \* Reader::BUFSIZE
Bytes == {0, 1}                   \* byte values of a payload (a length prefix's too)
Payloads == UNION {[1..n -> Bytes] : n \in 0..MaxLen}
Min(a, b) == IF a < b THEN a ELSE b

\* u32::from_be_bytes
from_be_bytes(b) == b[4] + 256 * b[3] + 65536 * b[2] + 16777216 * b[1]

\* u32::from_le_bytes
from_le_bytes(b) == b[1] + 256 * b[2] + 65536 * b[3] + 16777216 * b[4]

\* (n as u32).to_le_bytes(): the four low bytes of n, lowest first
to_le_bytes(n) ==
    <<n % 256, (n \div 256) % 256, (n \div 65536) % 256, (n \div 16777216) % 256>>

\* Writer::send: the bytes written for a serialized payload
send(serialized) == to_le_bytes(Len(serialized)) \o serialized

\* A try_read that would put the bytes just read in front of the buffered ones.
try_read_prepends(n) ==
    IF Len(buf) >= 4 /\ Len(buf) >= 4 + from_le_bytes(SubSeq(buf, 1, 4))
    THEN LET len == from_le_bytes(SubSeq(buf, 1, 4))
         IN  /\ n = 0
             /\ got' = Append(got, SubSeq(buf, 5, 4 + len))
             /\ buf' = SubSeq(buf, 4 + len + 1, Len(buf))
             /\ pipe' = pipe
             /\ last' = Last("try_read", 0, "Some")
    ELSE /\ IF pipe = <<>> THEN n = 0 /\ ~driverAlive
                           ELSE n \in 1..Min(Len(pipe), BUFSIZE)
         /\ buf' = SubSeq(pipe, 1, n) \o buf
         /\ pipe' = SubSeq(pipe, n + 1, Len(pipe))
         /\ got' = got
         /\ last' = Last("try_read", n, "None")

\* Reader::try_read, where the read of the child's stdout (if one is made) returns n
\* bytes: a complete frame at the head of buf is sliced out and returned without
\* reading; otherwise what the read returned is appended to buf and None returned.
try_read(n) ==
    IF Len(buf) >= 4 /\ Len(buf) >= 4 + from_le_bytes(SubSeq(buf, 1, 4))
    THEN LET len == from_le_bytes(SubSeq(buf, 1, 4))
         IN  /\ n = 0
             /\ got' = Append(got, SubSeq(buf, 5, 4 + len))
             /\ buf' = SubSeq(buf, 4 + len + 1, Len(buf))
             /\ pipe' = pipe
             /\ last' = Last("try_read", 0, "Some")
    ELSE /\ IF pipe = <<>> THEN n = 0 /\ ~driverAlive
                           ELSE n \in 1..Min(Len(pipe), BUFSIZE)
         /\ buf' = buf \o SubSeq(pipe, 1, n)
         /\ pipe' = SubSeq(pipe, n + 1, Len(pipe))
         /\ got' = got
         /\ last' = Last("try_read", n, "None")

\* One call of reader.try_read() by the read loop.
TryRead(n) ==
    /\ try_read(n)
    /\ UNCHANGED <<wsroute, locking, objects, graph, table, futures, driver, wire, loop, connection, emitter, nc, sent>>

\* serde_json::from_slice(&bytes) of a payload, for a driver that only sends events
\* to the BrowserContext AContext: an empty payload does not decode; the first byte
\* stands for the method, the second (if any) for the guid in the params.
AContext == 1
APage == 2
decode(payload) ==
    IF payload = <<>> THEN GarbageFrame
    ELSE EventFrame(AContext,
                    IF payload[1] = 0 THEN "page" ELSE "close",
                    IF Len(payload) < 2 THEN NoRef
                    ELSE IF payload[2] = 0 THEN APage ELSE Unknown)

\* The read step of the loop on the byte stream: reader.try_read()? and, for
\* Some(frame), the move to the stop-flag check with that frame.
LoopTryRead(n) ==
    /\ loop.pc = "read"
    /\ conn # "dropped"
    /\ try_read(n)
    /\ loop' = IF got' = got THEN loop
               ELSE IF decode(got'[Len(got')]).kind = "Garbage" THEN Failed("Serde")
               ELSE [pc |-> "check_stop", response |-> decode(got'[Len(got')]), err |-> ""]
    /\ UNCHANGED <<wsroute, locking, objects, graph, table, futures, driver, wire, connection, emitter, nc, sent>>

\* The driver writes one payload, framed as Writer::send frames a request.
DriverWrite(payload) ==
    /\ driverAlive
    /\ Len(sent) < MaxFrames
    /\ pipe' = pipe \o send(payload)
    /\ sent' = Append(sent, payload)
    /\ last' = Quiet
    /\ UNCHANGED <<wsroute, locking, objects, graph, table, futures, driver, wire, loop, connection, emitter, nc, buf, got>>

\* ------------------------------------------------------------------ Context lock

\* A caller takes the Context lock and send_message allocates the id and registers
\* the call; the write of the frame is still to come.
SendLock ==
    /\ lock = "free"
    /\ id < MaxCalls
    /\ conn # "dropped"
    /\ lock' = "sender"
    /\ id' = id + 1
    /\ callbacks' = [k \in DOMAIN callbacks \cup {id + 1} |->
                        IF k = id + 1 THEN id + 1 ELSE callbacks[k]]
    /\ futures' = [futures EXCEPT ![id + 1] = NewFuture]
    /\ last' = Quiet
    /\ UNCHANGED <<wsroute, stdin, dout, emitter, transport, objects, graph, driver, wire, loop, connection, nc>>

\* self.writer.send(&req)?: write_all returns once the child's stdin pipe has taken
\* the frame, which takes room in the pipe; then the caller releases the lock.
SendWrite ==
    /\ lock = "sender"
    /\ Len(stdin) < StdinCap
    /\ stdin' = Append(stdin, Request(id, "call", Root))
    /\ lock' = "free"
    /\ last' = Last("send_message", id, "Ok")
    /\ UNCHANGED <<wsroute, dout, emitter, transport, objects, graph, table, futures, driver, wire, loop,
                   connection, nc>>

\* The child reads a request from its stdin; it does so only between two writes.
ChildRead ==
    /\ driverAlive
    /\ dout = NoFrame
    /\ stdin # <<>>
    /\ requests' = requests \cup {Head(stdin)}
    /\ stdin' = Tail(stdin)
    /\ last' = Quiet
    /\ UNCHANGED <<wsroute, lock, dout, emitter, transport, objects, graph, table, futures, replied, issued,
                   made, driverAlive, wire, loop, connection, nc>>

\* The child starts to write a frame to its stdout: the answer to a request it has
\* read, or an event of the root object.
ChildBeginWrite(frame) ==
    /\ driverAlive
    /\ dout = NoFrame
    /\ \/ /\ frame.kind = "Result"
          /\ \E r \in requests : r.id = frame.id
          /\ replied[frame.id] = NoBody
          /\ replied' = [replied EXCEPT ![frame.id] = frame.body]
       \/ /\ frame.kind = "Event"
          /\ UNCHANGED replied
    /\ dout' = frame
    /\ last' = Quiet
    /\ UNCHANGED <<wsroute, lock, stdin, emitter, transport, objects, graph, table, futures, requests, issued,
                   made, driverAlive, wire, loop, connection, nc>>

\* The child's write returns once its stdout pipe has taken the frame.
ChildWrite ==
    /\ dout # NoFrame
    /\ Len(wire) < MaxWire
    /\ wire' = Append(wire, dout)
    /\ dout' = NoFrame
    /\ last' = Quiet
    /\ UNCHANGED <<wsroute, lock, stdin, emitter, transport, objects, graph, table, futures, driver, loop,
                   connection, nc>>

\* let mut ctx = c.lock().unwrap(): the loop blocks until no thread holds the lock.
LoopLock ==
    /\ loop.pc = "dispatch"
    /\ lock = "free"
    /\ lock' = "loop"
    /\ last' = Quiet
    /\ UNCHANGED <<wsroute, stdin, dout, emitter, transport, objects, graph, table, futures, driver, wire,
                   loop, connection, nc>>

\* ctx.dispatch(response)? of a creation message by the thread that holds the lock;
\* the guard is dropped at the end of the block, or by the `?`.
LoopDispatchLocked ==
    /\ lock = "loop"
    /\ loop.pc = "dispatch"
    /\ loop.response.kind = "Create"
    /\ create_remote_object(loop.response)
    /\ lock' = "free"
    /\ UNCHANGED <<wsroute, stdin, dout, emitter, transport, table, futures, driver, wire, connection>>

\* ------------------------------------------------------------------ EventEmitter

\* A subscribe_event call that has not started.
NoSub == [pc |-> "idle", rx |-> 0, next |-> 1, recv |-> <<>>, lost |-> {}, since |-> 0]

\* EventEmitter::tx(): a clone of the slot's Sender, taken under the slot's lock.
tx == etx

\* subscribe_event, first half: self.tx(). With a Sender in the slot the call ends
\* here with tx.subscribe(), a Receiver that sees the values sent from now on;
\* with None it goes on to make a channel.
SubscribeTx(s) ==
    /\ subs[s].pc = "idle"
    /\ \A r \in 1..(s - 1) : subs[r].pc # "idle"
    /\ subs' = [subs EXCEPT ![s] =
                    IF tx # 0
                    THEN [NoSub EXCEPT !.pc = "subscribed", !.rx = tx,
                                       !.next = Len(chan[tx]) + 1, !.since = emitted]
                    ELSE [NoSub EXCEPT !.pc = "creating"]]
    /\ last' = Quiet
    /\ UNCHANGED <<wsroute, locking, objects, graph, table, futures, driver, wire, loop, connection, nc,
                   transport, etx, chan, emitted>>

\* subscribe_event, second half: broadcast::channel(), then self.set_tx(tx), which
\* takes the slot's lock again and overwrites what the slot holds.
SubscribeSetTx(s) ==
    /\ subs[s].pc = "creating"
    /\ etx' = s
    /\ subs' = [subs EXCEPT ![s] = [NoSub EXCEPT !.pc = "subscribed", !.rx = s,
                                                !.next = 1, !.since = emitted]]
    /\ last' = Quiet
    /\ UNCHANGED <<wsroute, locking, objects, graph, table, futures, driver, wire, loop, connection, nc,
                   transport, chan, emitted>>

\* emit_event: self.tx().map(|tx| tx.send(e)): nothing without a Sender; send
\* stores the value for every Receiver of that channel and never waits.
EmitEvent ==
    /\ emitted < MaxEmit
    /\ emitted' = emitted + 1
    /\ chan' = IF tx = 0 THEN chan ELSE [chan EXCEPT ![tx] = Append(@, emitted + 1)]
    /\ last' = Last("emit_event", emitted + 1, IF tx = 0 THEN "None" ELSE "Sent")
    /\ UNCHANGED <<wsroute, locking, objects, graph, table, futures, driver, wire, loop, connection, nc,
                   transport, etx, subs>>

\* The oldest position of channel c that is still retained.
oldest(c) == IF Len(chan[c]) > Capacity THEN Len(chan[c]) - Capacity + 1 ELSE 1

\* One poll of a subscriber's stream that has something to return: Lagged when the
\* values it had not read were overwritten (it resumes at the oldest retained one),
\* else the next value.
Recv(s) ==
    LET c == subs[s].rx
        n == subs[s].next
    IN  /\ subs[s].pc = "subscribed"
        /\ n <= Len(chan[c])
        /\ IF n < oldest(c)
           THEN /\ subs' = [subs EXCEPT ![s].next = oldest(c),
                                        ![s].lost = @ \cup {chan[c][p] : p \in n..(oldest(c) - 1)}]
                /\ last' = Last("recv", s, "Lagged")
           ELSE /\ subs' = [subs EXCEPT ![s].next = n + 1,
                                        ![s].recv = Append(@, chan[c][n])]
                /\ last' = Last("recv", s, "Ok")
        /\ UNCHANGED <<wsroute, locking, objects, graph, table, futures, driver, wire, loop, connection, nc,
                       transport, etx, chan, emitted>>

\* ------------------------------------------------------------------ specification

\* Context::new: the table holds the root object only; no call was made.
Init ==
    /\ objects = {Root}
    /\ heap = [g \in AllGuids |-> IF g = Root THEN [NoNode EXCEPT !.typ = "Root"] ELSE NoNode]
    /\ bvar = [g \in AllGuids |-> NoVar]
    /\ id = 0
    /\ callbacks = << >>
    /\ futures = [p \in Places |-> NoFuture]
    /\ requests = {}
    /\ replied = [i \in Places |-> NoBody]
    /\ issued = 0
    /\ made = [i \in Places |-> 0]
    /\ gone = {}
    /\ nc = [k \in 1..MaxNew |-> NoNew]
    /\ etx = 0
    /\ chan = [c \in 1..MaxSubs |-> <<>>]
    /\ subs = [s \in 1..MaxSubs |-> NoSub]
    /\ emitted = 0
    /\ lock = "free"
    /\ stdin = <<>>
    /\ dout = NoFrame
    /\ connected = FALSE
    /\ cts = [k \in 1..MaxConnect |-> NoConnect]
    /\ pipe = <<>>
    /\ buf = <<>>
    /\ sent = <<>>
    /\ got = <<>>
    /\ wire = <<>>
    /\ driverAlive = TRUE
    /\ loop = Idle
    /\ should_stop = FALSE
    /\ conn = "live"
    /\ last = Quiet

Next ==
    \/ SendMessage
    \/ \E p \in Places : PollFuture(p)
    \/ \E p \in Places : DropFuture(p)
    \/ \E i \in Places : \E b \in Bodies(i) : DriverRespond(i, b)
    \/ DriverGarbage
    \/ DriverExit
    \/ LoopRead
    \/ LoopBreak
    \/ LoopCheckStop
    \/ LoopDispatchResult
    \/ LoopNotifyClosed
    \/ ConnDropNotify
    \/ ConnDropStop

Spec == Init /\ [][Next]_vars

\* The object graph under creation, disposal and ordinary events.
NextGraph ==
    \/ \E parent \in AllGuids \cup {Unknown}, typ \in Tags, initOk \in BOOLEAN :
          DriverCreate(parent, typ, initOk)
    \/ \E g \in Guids : DriverDispose(g)
    \/ \E g \in Guids, m \in Methods : DriverEvent(g, m, NoRef)
    \/ LoopRead
    \/ LoopCheckStop
    \/ LoopDispatchCreate
    \/ LoopDispatchDispose
    \/ LoopDispatchEvent
    \/ LoopNotifyClosed

SpecGraph == Init /\ [][NextGraph]_vars

\* Browser::new_context against the driver's creation event and Result: the table
\* holds a Browser under the root, as after a launch.
ABrowser == 1
InitNew ==
    /\ objects = {Root, ABrowser}
    /\ heap = [g \in AllGuids |->
                 IF g = Root THEN [typ |-> "Root", parent |-> Root, children |-> <<ABrowser>>]
                 ELSE IF g = ABrowser THEN [typ |-> "Browser", parent |-> Root, children |-> <<>>]
                 ELSE NoNode]
    /\ bvar = [g \in AllGuids |-> NoVar]
    /\ id = 0
    /\ callbacks = << >>
    /\ futures = [p \in Places |-> NoFuture]
    /\ requests = {}
    /\ replied = [i \in Places |-> NoBody]
    /\ issued = ABrowser
    /\ made = [i \in Places |-> 0]
    /\ gone = {}
    /\ nc = [k \in 1..MaxNew |-> NoNew]
    /\ etx = 0
    /\ chan = [c \in 1..MaxSubs |-> <<>>]
    /\ subs = [s \in 1..MaxSubs |-> NoSub]
    /\ emitted = 0
    /\ lock = "free"
    /\ stdin = <<>>
    /\ dout = NoFrame
    /\ connected = FALSE
    /\ cts = [k \in 1..MaxConnect |-> NoConnect]
    /\ pipe = <<>>
    /\ buf = <<>>
    /\ sent = <<>>
    /\ got = <<>>
    /\ wire = <<>>
    /\ driverAlive = TRUE
    /\ loop = Idle
    /\ should_stop = FALSE
    /\ conn = "live"
    /\ last = Quiet

NextNew ==
    \/ \E k \in 1..MaxNew : NewContextStart(k, ABrowser)
    \/ \E k \in 1..MaxNew : NewContextSend(k)
    \/ \E k \in 1..MaxNew : NewContextSetPending(k)
    \/ \E k \in 1..MaxNew, o \in {"Result", "Context", "Timeout"} : NewContextAwait(k, o)
    \/ \E k \in 1..MaxNew : NewContextClear(k)
    \/ \E k \in 1..MaxNew : NewContextFinish(k)
    \/ \E k \in 1..MaxNew : NewContextCancel(k)
    \/ \E i \in Places : DriverAnnounceContext(i)
    \/ \E i \in Places : DriverRespondContext(i)
    \/ LoopRead
    \/ LoopCheckStop
    \/ LoopDispatchResult
    \/ LoopDispatchCreate

SpecNew == InitNew /\ [][NextNew]_vars

\* new_context next to a driver that never answers the request, may create a context
\* unasked and may dispose a context it made; the driver writes a frame once the loop has taken the one before.
NextFallback ==
    \/ \E k \in 1..MaxNew : NewContextStart(k, ABrowser)
    \/ \E k \in 1..MaxNew : NewContextSend(k)
    \/ \E k \in 1..MaxNew : NewContextSetPending(k)
    \/ \E k \in 1..MaxNew, o \in {"Result", "Context", "Timeout"} : NewContextAwait(k, o)
    \/ \E k \in 1..MaxNew : NewContextClear(k)
    \/ \E k \in 1..MaxNew : NewContextFinish(k)
    \/ \E i \in Places : wire = <<>> /\ DriverAnnounceContext(i)
    \/ wire = <<>> /\ DriverCreate(ABrowser, "BrowserContext", TRUE)
    \/ \E g \in Guids \ {ABrowser} : wire = <<>> /\ g \in objects /\ DriverDispose(g)
    \/ LoopRead
    \/ LoopCheckStop
    \/ LoopDispatchCreate
    \/ LoopDispatchDispose

SpecFallback == InitNew /\ [][NextFallback]_vars

\* Two threads that each call new_context on the same Browser.
Callers == {1, 2}

\* Two new_context calls on the same Browser whose executions may overlap: the table
\* holds a Browser under the root, as after a launch.
InitTwo ==
    /\ objects = {Root, ABrowser}
    /\ heap = [g \in AllGuids |->
                 IF g = Root THEN [typ |-> "Root", parent |-> Root, children |-> <<ABrowser>>]
                 ELSE IF g = ABrowser THEN [typ |-> "Browser", parent |-> Root, children |-> <<>>]
                 ELSE NoNode]
    /\ bvar = [g \in AllGuids |-> NoVar]
    /\ id = 0
    /\ callbacks = << >>
    /\ futures = [p \in Places |-> NoFuture]
    /\ requests = {}
    /\ replied = [i \in Places |-> NoBody]
    /\ issued = ABrowser
    /\ made = [i \in Places |-> 0]
    /\ gone = {}
    /\ nc = [k \in Callers |-> NoNew]
    /\ etx = 0
    /\ chan = [c \in 1..MaxSubs |-> <<>>]
    /\ subs = [s \in 1..MaxSubs |-> NoSub]
    /\ emitted = 0
    /\ lock = "free"
    /\ stdin = <<>>
    /\ dout = NoFrame
    /\ connected = FALSE
    /\ cts = [k \in 1..MaxConnect |-> NoConnect]
    /\ pipe = <<>>
    /\ buf = <<>>
    /\ sent = <<>>
    /\ got = <<>>
    /\ wire = <<>>
    /\ driverAlive = TRUE
    /\ loop = Idle
    /\ should_stop = FALSE
    /\ conn = "live"
    /\ last = Quiet

\* The driver announces the context it made for a request and answers the request;
\* it writes a frame once the loop has taken the one before.
NextTwo ==
    \/ \E k \in Callers : NewContextStart(k, ABrowser)
    \/ \E k \in Callers : NewContextSend(k)
    \/ \E k \in Callers : NewContextSetPending(k)
    \/ \E k \in Callers, o \in {"Result", "Context", "Timeout"} : NewContextAwait(k, o)
    \/ \E k \in Callers : NewContextClear(k)
    \/ \E k \in Callers : NewContextFinish(k)
    \/ \E i \in Places : wire = <<>> /\ DriverAnnounceContext(i)
    \/ \E i \in Places : wire = <<>> /\ DriverRespondContext(i)
    \/ LoopRead
    \/ LoopCheckStop
    \/ LoopDispatchResult
    \/ LoopDispatchCreate

SpecTwo == InitTwo /\ [][NextTwo]_vars

\* new_context followed by the "close" event of a context: the driver announces the
\* context it made for the request, answers the request, and may then close that
\* context; it writes a frame once the loop has taken the one before,
\* and no call runs into its deadline.
NextNewClose ==
    \/ \E k \in 1..MaxNew : NewContextStart(k, ABrowser)
    \/ \E k \in 1..MaxNew : NewContextSend(k)
    \/ \E k \in 1..MaxNew : NewContextSetPending(k)
    \/ \E k \in 1..MaxNew, o \in {"Result", "Context"} : NewContextAwait(k, o)
    \/ \E k \in 1..MaxNew : NewContextClear(k)
    \/ \E k \in 1..MaxNew : NewContextFinish(k)
    \/ \E i \in Places : wire = <<>> /\ DriverAnnounceContext(i)
    \/ \E i \in Places : wire = <<>> /\ DriverRespondContext(i)
    \/ \E i \in Places : /\ wire = <<>> /\ made[i] \in objects /\ replied[i] # NoBody
                          /\ DriverEvent(made[i], "close", NoRef)
    \/ LoopRead
    \/ LoopCheckStop
    \/ LoopDispatchResult
    \/ LoopDispatchCreate
    \/ LoopDispatchEvent

SpecNewClose == InitNew /\ [][NextNewClose]_vars

\* The construction of BrowserContexts inside dispatch, with callers that take the
\* Context lock to send: the driver announces Tracing and APIRequestContext objects
\* and Browsers under the root, and contexts whose initializer names any guid; it
\* writes a frame once the loop has taken the one before.
NextCtxLock ==
    \/ \E typ \in {"Browser", "Tracing", "APIRequestContext"} :
          wire = <<>> /\ DriverCreate(Root, typ, TRUE)
    \/ \E parent \in objects, t, r \in AllGuids \cup {Unknown, NoRef} :
          wire = <<>> /\ DriverCreateContext(parent, t, r)
    \/ SendLock
    \/ SendWrite
    \/ ChildRead
    \/ LoopRead
    \/ LoopCheckStop
    \/ LoopLock
    \/ LoopDispatchLocked

SpecCtxLock == Init /\ [][NextCtxLock]_vars

\* Routes of a BrowserContext: the table holds one context under the root; callers
\* register routes, the driver announces Route objects under the context and sends
\* "route" events that name them, once the loop has taken the frame before.
InitRoute ==
    /\ objects = {Root, AContext}
    /\ heap = [g \in AllGuids |->
                 IF g = Root THEN [typ |-> "Root", parent |-> Root, children |-> <<AContext>>]
                 ELSE IF g = AContext
                      THEN [typ |-> "BrowserContext", parent |-> Root, children |-> <<>>]
                 ELSE NoNode]
    /\ bvar = [g \in AllGuids |-> NoVar]
    /\ id = 0
    /\ callbacks = << >>
    /\ futures = [p \in Places |-> NoFuture]
    /\ requests = {}
    /\ replied = [i \in Places |-> NoBody]
    /\ issued = AContext
    /\ made = [i \in Places |-> 0]
    /\ gone = {}
    /\ nc = [k \in 1..MaxNew |-> NoNew]
    /\ etx = 0
    /\ chan = [c \in 1..MaxSubs |-> <<>>]
    /\ subs = [s \in 1..MaxSubs |-> NoSub]
    /\ emitted = 0
    /\ lock = "free"
    /\ stdin = <<>>
    /\ dout = NoFrame
    /\ connected = FALSE
    /\ cts = [k \in 1..MaxConnect |-> NoConnect]
    /\ pipe = <<>>
    /\ buf = <<>>
    /\ sent = <<>>
    /\ got = <<>>
    /\ wire = <<>>
    /\ driverAlive = TRUE
    /\ loop = Idle
    /\ should_stop = FALSE
    /\ conn = "live"
    /\ last = Quiet

NextRoute ==
    \/ \E g \in {<<"a">>} : Route(AContext, g)
    \/ \E src \in {<<"a">>, <<"a", "/">>}, f \in {<<>>, <<"/">>} : RouteRegex(AContext, src, f)
    \/ \E g \in {<<"a">>}, times \in 0..MaxTimes : RouteWithTimesGlob(AContext, g, times)
    \/ wire = <<>> /\ DriverCreate(AContext, "Route", TRUE)
    \/ \E ref \in Guids \cup {NoRef} : wire = <<>> /\ DriverEvent(AContext, "route", ref)
    \/ LoopRead
    \/ LoopCheckStop
    \/ LoopDispatchCreate
    \/ LoopDispatchEvent

SpecRoute == InitRoute /\ [][NextRoute]_vars

\* connect_to_server calls on the handles of one WebSocketRoute, which the driver
\* announces under the root; the driver may exit, after which a send fails.
AWebSocketRoute == 1
NextConnect ==
    \/ wire = <<>> /\ issued = 0 /\ DriverCreate(Root, "WebSocketRoute", TRUE)
    \/ \E k \in 1..MaxConnect, side \in {"Page", "Server"} :
          ConnectToServer(k, AWebSocketRoute, side)
    \/ \E k \in 1..MaxConnect : ConnectSend(k, AWebSocketRoute)
    \/ DriverExit
    \/ LoopRead
    \/ LoopCheckStop
    \/ LoopDispatchCreate

SpecConnect == Init /\ [][NextConnect]_vars

\* The byte stream of the child's stdout against Reader::try_read.
NextFrame ==
    \/ \E payload \in Payloads : DriverWrite(payload)
    \/ \E n \in 0..(MaxFrames * (4 + MaxLen)) : TryRead(n)
    \/ DriverExit

SpecFrame == Init /\ [][NextFrame]_vars

\* Senders and the read loop around the Context lock, with a child that reads its
\* stdin and writes its stdout in turn, through pipes of bounded size.
NextLock ==
    \/ SendLock
    \/ SendWrite
    \/ ChildRead
    \/ \E i \in Places : ChildBeginWrite(ResultFrame(i, <<"value", i>>))
    \/ ChildBeginWrite(EventFrame(Root, "other", NoRef))
    \/ ChildWrite
    \/ LoopRead
    \/ LoopCheckStop
    \/ lock = "free" /\ LoopDispatchResult
    \/ lock = "free" /\ LoopDispatchEvent

SpecLock == Init /\ [][NextLock]_vars

\* The read loop on the byte stream of a driver that sends events to one
\* BrowserContext, which exists with one Page from the start.
InitOrder ==
    /\ objects = {Root, AContext, APage}
    /\ heap = [g \in AllGuids |->
                 IF g = Root THEN [typ |-> "Root", parent |-> Root, children |-> <<AContext>>]
                 ELSE IF g = AContext
                      THEN [typ |-> "BrowserContext", parent |-> Root, children |-> <<APage>>]
                 ELSE IF g = APage
                      THEN [typ |-> "Page", parent |-> AContext, children |-> <<>>]
                 ELSE NoNode]
    /\ bvar = [g \in AllGuids |-> NoVar]
    /\ id = 0
    /\ callbacks = << >>
    /\ futures = [p \in Places |-> NoFuture]
    /\ requests = {}
    /\ replied = [i \in Places |-> NoBody]
    /\ issued = APage
    /\ made = [i \in Places |-> 0]
    /\ gone = {}
    /\ nc = [k \in 1..MaxNew |-> NoNew]
    /\ etx = 0
    /\ chan = [c \in 1..MaxSubs |-> <<>>]
    /\ subs = [s \in 1..MaxSubs |-> NoSub]
    /\ emitted = 0
    /\ lock = "free"
    /\ stdin = <<>>
    /\ dout = NoFrame
    /\ connected = FALSE
    /\ cts = [k \in 1..MaxConnect |-> NoConnect]
    /\ pipe = <<>>
    /\ buf = <<>>
    /\ sent = <<>>
    /\ got = <<>>
    /\ wire = <<>>
    /\ driverAlive = TRUE
    /\ loop = Idle
    /\ should_stop = FALSE
    /\ conn = "live"
    /\ last = Quiet

NextOrder ==
    \/ \E payload \in Payloads : DriverWrite(payload)
    \/ \E n \in 0..(MaxFrames * (4 + MaxLen)) : LoopTryRead(n)
    \/ LoopCheckStop
    \/ LoopDispatchEvent
    \/ LoopNotifyClosed

SpecOrder == InitOrder /\ [][NextOrder]_vars

\* Ordinary events, some of which their handler fails on, with calls pending.
NextEvent ==
    \/ SendMessage
    \/ \E parent \in AllGuids, typ \in {"BrowserContext", "Page"} : DriverCreate(parent, typ, TRUE)
    \/ \E g \in Guids, ref \in Guids \cup {Unknown, NoRef} :
          wire = <<>> /\ DriverEvent(g, "page", ref)
    \/ \E g \in Guids : wire = <<>> /\ DriverEvent(g, "close", NoRef)
    \/ LoopRead
    \/ LoopCheckStop
    \/ LoopDispatchCreate
    \/ LoopDispatchEvent

SpecEvent == Init /\ [][NextEvent]_vars

\* Calls answered by Results whose ids may match no pending call.
NextDesync ==
    \/ SendMessage
    \/ \E p \in Places : PollFuture(p)
    \/ \E p \in Places : DropFuture(p)
    \/ \E i \in Places : \E b \in Bodies(i) : DriverRespond(i, b)
    \/ \E i \in 1..(MaxCalls + 1) : DriverStray(i, <<"value", i>>)
    \/ LoopRead
    \/ LoopCheckStop
    \/ LoopDispatchResult
    \/ LoopNotifyClosed

SpecDesync == Init /\ [][NextDesync]_vars

\* The read loop with each of its three ways to fail (the read of the pipe, the
\* decoding of a frame, the dispatch of a frame), next to a teardown.
NextFail ==
    \/ SendMessage
    \/ \E i \in Places : DriverRespond(i, <<"value", i>>)
    \/ \E i \in 1..(MaxCalls + 1) : DriverStray(i, <<"value", i>>)
    \/ DriverGarbage
    \/ LoopRead
    \/ LoopReadError
    \/ LoopBreak
    \/ LoopCheckStop
    \/ LoopDispatchResult
    \/ LoopNotifyClosed
    \/ ConnDropNotify
    \/ ConnDropStop

SpecFail == Init /\ [][NextFail]_vars

\* One node's event emitter with its subscribers.
NextEmit ==
    \/ \E s \in 1..MaxSubs : SubscribeTx(s)
    \/ \E s \in 1..MaxSubs : SubscribeSetTx(s)
    \/ EmitEvent
    \/ \E s \in 1..MaxSubs : Recv(s)

SpecEmit == Init /\ [][NextEmit]_vars

\* Calls, teardown and object creation together: what notify_closed leaves behind.
NextClose ==
    \/ SendMessage
    \/ \E p \in Places : PollFuture(p)
    \/ \E p \in Places : DropFuture(p)
    \/ \E parent \in AllGuids \cup {Unknown} : DriverCreate(parent, "Dialog", TRUE)
    \/ DriverGarbage
    \/ LoopRead
    \/ LoopBreak
    \/ LoopCheckStop
    \/ LoopDispatchCreate
    \/ LoopNotifyClosed
    \/ ConnDropNotify
    \/ ConnDropStop

SpecClose == Init /\ [][NextClose]_vars

\* ------------------------------------------------------------------ claims

\* The place (WaitData) registered under request id i.
PlaceOf(i) == callbacks[i]
Registered == DOMAIN callbacks
DispatchedResult == last.op = "dispatch" /\ last.arg.kind = "Result"

\* C1: whatever the order in which Result frames are dispatched, a call whose future
\* is alive holds (and resolves to) only the body of the Result frame that carries
\* its own id, and right after that frame's dispatch its cell holds exactly that body.
C1_OwnPayload ==
    /\ \A i \in Registered :
          /\ futures[PlaceOf(i)].cell.tag = "Ok" => futures[PlaceOf(i)].cell.val = replied[i]
          /\ futures[PlaceOf(i)].got.tag = "Ok" => futures[PlaceOf(i)].got.val = replied[i]
    /\ (DispatchedResult /\ last.ret = "Ok" /\ futures[PlaceOf(last.arg.id)].state = "alive")
          => futures[PlaceOf(last.arg.id)].cell = OkCell(last.arg.body)

\* C1 witness: the Result of call 2 was dispatched and consumed before the Result of
\* call 1 was dispatched, and both hold their own body.
C1_Witness ==
    /\ DispatchedResult /\ last.arg.id = 1 /\ last.ret = "Ok"
    /\ futures[1].cell = OkCell(replied[1])
    /\ futures[2].state = "done" /\ futures[2].got = OkCell(replied[2])

\* C2: once the result cell of a live call is filled, no later step changes what it
\* holds (until the caller consumes or drops it).
C2_CellAssignedOnce ==
    [][\A p \in Places :
          (futures[p].state = "alive" /\ futures[p].cell # NoCell /\ futures'[p].state = "alive")
              => futures'[p].cell = futures[p].cell]_vars

\* notify_closed has run: by the loop after a fatal error, or by Connection's Drop.
Closed == conn # "live" \/ (loop.pc = "exited" /\ loop.err # "")

\* C3: right after notify_closed every registered call whose future is alive holds the
\* same terminal error, and from then on the strong table is empty (the root is gone
\* too), also after further frames are dispatched.
C3_ClosedFailsAllAndClears ==
    /\ Closed => objects = {}
    /\ last.op = "notify_closed" =>
          \A i \in Registered :
              futures[PlaceOf(i)].state = "alive" => futures[PlaceOf(i)].cell = ErrCell(last.ret)

\* C3 witness: two pending calls were failed by the teardown's notify_closed, and a
\* creation message dispatched afterwards found no parent.
C3_Witness ==
    /\ conn = "closing"
    /\ last.op = "dispatch" /\ last.arg.kind = "Create" /\ last.ret = "ObjectNotFound"
    /\ \A p \in {1, 2} : futures[p].state = "alive" /\ futures[p].cell = ErrCell("ReceiverClosed")

\* C4: once the connection has terminated (the read loop has ended), no registered
\* call with a live future is left without a result.
C4_NoCallPendingAfterTermination ==
    loop.pc = "exited" =>
        \A i \in Registered :
            futures[PlaceOf(i)].state = "alive" => futures[PlaceOf(i)].cell # NoCell

\* C5: dispatching the Result of a call whose future was dropped returns Ok (the loop
\* goes on), fills no cell, wakes nobody and leaves the strong table and every other
\* call as they were.
C5_DroppedFutureDiscards ==
    [][(/\ loop.pc = "dispatch" /\ loop.response.kind = "Result"
        /\ loop.response.id \in Registered
        /\ futures[PlaceOf(loop.response.id)].state = "dropped"
        /\ last'.op = "dispatch")
          => /\ last'.ret = "Ok" /\ loop'.pc = "read"
             /\ UNCHANGED <<futures, objects, heap, bvar, callbacks>>]_vars

\* C5 witness: the Result of a dropped call was dispatched while another call is pending.
C5_Witness ==
    /\ DispatchedResult /\ last.ret = "Ok"
    /\ futures[PlaceOf(last.arg.id)].state = "dropped"
    /\ \E p \in Places : futures[p].state = "alive" /\ futures[p].waker

\* The nodes a disposal of g has to remove: g and every object reachable from it
\* through the children lists.
RECURSIVE Reach(_, _)
Reach(S, k) ==
    IF k = 0 THEN S
    ELSE Reach(S \cup {c \in objects : \E n \in S :
                           \E j \in 1..Len(heap[n].children) : heap[n].children[j] = c}, k - 1)
Subtree(g) == IF g \in objects THEN Reach({g}, MaxGuids) ELSE {}

\* C6: the dispatch of a disposal message removes the node and every transitive child
\* from the strong table; a disposed guid never is in the table again, and no event
\* addressed to one reaches a handler.
C6_DisposeRemovesSubtree ==
    /\ [][(loop.pc = "dispatch" /\ loop.response.kind = "Dispose" /\ last'.op = "dispatch")
            => objects' = objects \ Subtree(loop.response.guid)]_vars
    /\ [](gone \cap objects = {})
    /\ []((last.op = "dispatch" /\ last.arg.kind = "Event" /\ last.ret \in {"Handled", "Logged"})
            => last.arg.guid \notin gone)

\* C6 witness: a disposal removed a node together with a child, child first.
C6_Witness ==
    /\ last.op = "dispatch" /\ last.arg.kind = "Dispose"
    /\ Len(last.ret) >= 2
    /\ last.ret[Len(last.ret)] = last.arg.guid

\* C7: a creation message whose parent guid is not in the strong table returns
\* ObjectNotFound and changes neither the table, nor any children list, nor any
\* Browser's contexts list.
C7_UnknownParentRejected ==
    [][(/\ loop.pc = "dispatch" /\ loop.response.kind = "Create"
        /\ loop.response.guid \notin objects
        /\ last'.op = "dispatch")
          => /\ last'.ret = "ObjectNotFound" /\ loop'.err = "ObjectNotFound"
             /\ UNCHANGED <<objects, heap, bvar>>]_vars

\* C7 witness: a creation under an unknown parent was rejected while the graph held a
\* Browser besides the root.
C7_Witness ==
    /\ last.op = "dispatch" /\ last.arg.kind = "Create" /\ last.ret = "ObjectNotFound"
    /\ \E b \in objects : heap[b].typ = "Browser"

\* C8: when the creation event of the BrowserContext made for a sent newContext
\* request is dispatched before the correlated Result, new_context resolves via
\* the event path, to the BrowserContext created by that event.
C8_EventFirstResolvesViaEvent ==
    \A k \in 1..MaxNew :
        (nc[k].pc = "done" /\ nc[k].eventFirst)
            => /\ nc[k].outcome = "Context"
               /\ nc[k].ret = <<"Ok", made[nc[k].id]>>

\* C9: a read of the child's output that returns zero bytes (the process has
\* exited) surfaces as a connection-closed condition: the loop leaves its read
\* step with an error for notify_closed; it does not go on reading.
C9_ZeroReadClosesConnection ==
    [][(loop.pc = "read" /\ ~driverAlive /\ wire = <<>> /\ last'.op = "try_read")
          => loop'.pc = "failed"]_vars

\* The frames of a sequence of payloads, concatenated.
RECURSIVE Framed(_)
Framed(payloads) ==
    IF payloads = <<>> THEN <<>> ELSE send(Head(payloads)) \o Framed(Tail(payloads))

\* The payloads framed so far that no try_read has returned yet.
Outstanding == SubSeq(sent, Len(got) + 1, Len(sent))

\* C10: however the framed byte stream is split across reads, the payloads try_read
\* has returned are the first ones framed, in order, the bytes not yet returned are
\* exactly the frames of the others (none lost, duplicated, split or merged), and
\* the call just made returned None if and only if the buffer did not hold the
\* whole of the next frame.
C10_FramingRoundTrip ==
    /\ Len(got) <= Len(sent)
    /\ got = SubSeq(sent, 1, Len(got))
    /\ buf \o pipe = Framed(Outstanding)
    /\ (last.op = "try_read" /\ last.ret = "None")
          => \/ Outstanding = <<>>
             \/ Len(buf) - last.arg < 4 + Len(Head(Outstanding))
    /\ (last.op = "try_read" /\ last.ret = "Some") => Len(got) > 0

\* A frame was returned, and the call just made returned None on a buffer that holds
\* part of the next frame only, payload bytes included.
C10_Witness ==
    /\ Len(got) >= 1
    /\ Len(got[1]) = MaxLen
    /\ last = Last("try_read", 1, "None")
    /\ Len(buf) > 4
    /\ pipe # <<>>

\* The events a subscriber's stream has returned.
Received(s) == {subs[s].recv[i] : i \in 1..Len(subs[s].recv)}

\* The events still waiting in the channel for subscriber s.
Waiting(s) == {chan[subs[s].rx][p] : p \in subs[s].next..Len(chan[subs[s].rx])}

\* C11: a subscriber receives none of the events emitted before it subscribed and,
\* in emission order, every event emitted after: each such event was returned by
\* its stream, waits in its channel, or (only past the buffer bound) was dropped.
C11_LateSubscriberSeesFuture ==
    \A s \in 1..MaxSubs :
        subs[s].pc = "subscribed" =>
            /\ \A e \in Received(s) : e > subs[s].since
            /\ \A i, j \in 1..Len(subs[s].recv) : i < j => subs[s].recv[i] < subs[s].recv[j]
            /\ \A e \in (subs[s].since + 1)..emitted :
                  e \in Received(s) \cup Waiting(s) \cup subs[s].lost
            /\ subs[s].lost # {} => emitted - subs[s].since > Capacity

\* The events subscriber s can still be handed: those waiting in its channel that
\* were not overwritten.
Retained(s) ==
    {chan[subs[s].rx][p] : p \in
        (IF subs[s].next < oldest(subs[s].rx) THEN oldest(subs[s].rx) ELSE subs[s].next)
            ..Len(chan[subs[s].rx])}

\* The smallest element of a non-empty set of numbers.
Oldest(S) == CHOOSE e \in S : \A f \in S : e <= f

\* C12: emit_event can always be taken (it never waits for a subscriber) and changes
\* no subscriber's position; without a Sender it changes nothing; every subscriber
\* is handed the event, and only one whose buffer was full loses something, its
\* oldest buffered event.
C12_EmitNeverBlocks ==
    /\ [](emitted < MaxEmit => ENABLED EmitEvent)
    /\ [][emitted' = emitted + 1 =>
            /\ UNCHANGED <<subs, etx>>
            /\ etx = 0 => UNCHANGED chan
            /\ \A s \in 1..MaxSubs :
                  subs[s].pc = "subscribed" =>
                      Retained(s)' = IF Cardinality(Retained(s)) < Capacity
                                     THEN Retained(s) \cup {emitted + 1}
                                     ELSE (Retained(s) \ {Oldest(Retained(s))})
                                              \cup {emitted + 1}]_vars

\* C13: the dispatch of a Result whose id has no pending-call record returns
\* CallbackNotFound and stops the loop, and the one step a stopped loop takes is
\* notify_closed with that error, which fails every registered call still alive.
C13_UnknownIdStopsLoop ==
    /\ [][(/\ loop.pc = "dispatch" /\ loop.response.kind = "Result"
           /\ loop.response.id \notin DOMAIN callbacks
           /\ last'.op = "dispatch")
             => /\ last'.ret = "CallbackNotFound"
                /\ loop'.pc = "failed" /\ loop'.err = "CallbackNotFound"]_vars
    /\ [][(loop.pc = "failed" /\ loop' # loop)
             => /\ loop'.pc = "exited"
                /\ last' = Last("notify_closed", 0, loop.err)
                /\ \A i \in Registered :
                      futures[PlaceOf(i)].state = "alive"
                          => futures'[PlaceOf(i)].cell = ErrCell(loop.err)]_vars

\* C13 witness: a stray Result stopped the loop and notify_closed failed a call that
\* was pending with the desync error.
C13_Witness ==
    /\ last = Last("notify_closed", 0, "CallbackNotFound")
    /\ loop.pc = "exited"
    /\ \E i \in Registered : /\ futures[PlaceOf(i)].state = "alive"
                              /\ futures[PlaceOf(i)].cell = ErrCell("CallbackNotFound")
                              /\ replied[i] = NoBody

\* C15: the dispatch of a Result that carries a remote-reported error for id i
\* returns Ok, fills the cell of call i (if its future is alive) with that error
\* body, and leaves the future of every other call, the strong table, the
\* pending-call table and the loop (back at its read step) as they were.
C15_RemoteErrorScopedToCall ==
    [][(/\ loop.pc = "dispatch" /\ loop.response.kind = "Result"
        /\ loop.response.body[1] = "error"
        /\ loop.response.id \in Registered
        /\ last'.op = "dispatch")
          => /\ last'.ret = "Ok" /\ loop'.pc = "read" /\ loop'.err = ""
             /\ \A p \in Places : p # PlaceOf(loop.response.id) => futures'[p] = futures[p]
             /\ futures[PlaceOf(loop.response.id)].state = "alive"
                   => futures'[PlaceOf(loop.response.id)].cell = OkCell(loop.response.body)
             /\ UNCHANGED <<objects, heap, bvar, id, callbacks>>]_vars

\* C15 witness: the remote error of call 1 was dispatched while call 2 was pending;
\* call 2 is still pending, unfilled.
C15_Witness ==
    /\ DispatchedResult /\ last.ret = "Ok" /\ last.arg.id = 1 /\ last.arg.body[1] = "error"
    /\ futures[1].cell = OkCell(<<"error", 1>>)
    /\ 2 \in Registered /\ futures[2].state = "alive" /\ futures[2].cell = NoCell
    /\ loop.pc = "read"

\* C14: when the handler of an ordinary event returns an error, dispatch returns Ok
\* (the error is logged): the loop is back at its read step as after any frame, and
\* the strong table, the object graph, the pending-call table and the calls'
\* futures are as before the event.
C14_HandlerErrorLogged ==
    [][(/\ loop.pc = "dispatch" /\ loop.response.kind = "Event"
        /\ loop.response.guid \in objects
        /\ handler_result(loop.response.guid, loop.response.method, loop.response.ref) # "Ok"
        /\ last'.op = "dispatch")
          => /\ last'.ret = "Logged"
             /\ loop' = Idle
             /\ UNCHANGED <<objects, heap, bvar, id, callbacks, futures>>]_vars

\* C14 witness: a "page" event naming no Page failed in the handler of a
\* BrowserContext while a call was pending, and the next frame waits to be read.
C14_Witness ==
    /\ last.op = "dispatch" /\ last.arg.kind = "Event" /\ last.ret = "Logged"
    /\ last.arg.ref \in objects
    /\ loop = Idle
    /\ wire # <<>>
    /\ \E i \in Registered : futures[PlaceOf(i)].state = "alive"

\* The errors the closure of the read loop can return
LoopErrors == {"Io", "Serde", "CallbackNotFound", "ObjectNotFound", "InvalidParams"}

\* C16: every error of the read loop (the read of the pipe, the decoding of a frame,
\* the dispatch of a frame) moves the loop to its failure exit with that error; from
\* there, while the Context is alive, the loop's only step before its thread ends is
\* notify_closed with that very error, which fails every registered call whose
\* future is alive and empties the strong table; and the loop never ends with an
\* error in any other way.
C16_LoopErrorNotifiesClosed ==
    [][/\ (last'.op \in {"try_read", "dispatch"} /\ last'.ret \in LoopErrors)
            => loop' = Failed(last'.ret)
       /\ (loop.pc = "failed" /\ conn # "dropped" /\ loop' # loop)
            => /\ loop.err \in LoopErrors
               /\ loop'.pc = "exited"
               /\ last' = Last("notify_closed", 0, loop.err)
               /\ objects' = {}
               /\ \A i \in Registered : futures[PlaceOf(i)].state = "alive"
                      => futures'[PlaceOf(i)].cell = ErrCell(loop.err)
       /\ (loop'.pc = "exited" /\ loop.pc # "exited" /\ loop'.err # "")
            => loop.pc = "failed" /\ loop'.err = loop.err /\ last'.op = "notify_closed"]_vars

\* C16 witness: the read of the pipe failed while a call was pending, and the loop
\* ended after notify_closed failed that call with the Io error.
C16_Witness ==
    /\ last = Last("notify_closed", 0, "Io")
    /\ loop.pc = "exited" /\ loop.err = "Io"
    /\ conn = "live"
    /\ objects = {}
    /\ \E i \in Registered : /\ futures[PlaceOf(i)].state = "alive"
                              /\ futures[PlaceOf(i)].cell = ErrCell("Io")

\* C17: once the teardown of the Connection has run notify_closed and set the stop
\* flag, the read loop dispatches no further frame into the Context: a frame the
\* loop still holds is dropped, its only step is to end.
C17_NoDispatchAfterTeardown ==
    [][(conn = "dropped" /\ should_stop)
          => /\ last'.op # "dispatch"
             /\ loop' # loop => loop'.pc = "exited"]_vars

\* The three places fallback_find_context looks in, for call k: the contexts of
\* the browser's list that the snapshot lacks, the live BrowserContext children of
\* the browser, the BrowserContexts of the strong table whose parent is the browser.
NewInList(k) ==
    {g \in Guids : Holds(bvar[nc[k].browser].contexts, g) /\ ~Holds(nc[k].existing, g)}
ContextChildren(k) ==
    {g \in objects : Holds(heap[nc[k].browser].children, g) /\ heap[g].typ = "BrowserContext"}
ContextsInTable(k) ==
    {g \in objects : heap[g].typ = "BrowserContext" /\ heap[g].parent = nc[k].browser}
FellBack(k) ==
    nc[k].outcome = "Timeout" \/ (nc[k].outcome = "Context" /\ nc[k].rx.st # "value")

C19_SenderRegisteredBeforeSend ==
    [][\A k \in 1..MaxNew :
         /\ (nc[k].pc = "send" /\ nc'[k].pc = "set_pending")
               => bvar'[nc[k].browser].pending_context = k
         /\ (/\ nc[k].pc \in {"set_pending", "await"}
             /\ loop.pc = "dispatch" /\ loop.response.kind = "Create"
             /\ loop.response.new = made[nc[k].id]
             /\ last'.op = "dispatch" /\ last'.ret = "Ok")
               => nc'[k].rx = [st |-> "value", val |-> loop.response.new]]_vars

\* C20: after the caller has dropped its new_context future while it waited, the
\* creation event of the context made for the request and the Result of the request
\* are dispatched without error and leave the loop at its read step: the event
\* inserts the context into the strong table, under the browser and into the
\* browser's contexts list, as for a waiting caller; the Result changes neither
\* the table nor the graph; no future, no pending-call entry and nothing of the
\* dropped call changes.
C20_CancelledCallAbsorbed ==
    [][\A k \in 1..MaxNew :
         (/\ nc[k].pc = "cancelled" /\ nc[k].id # 0
          /\ loop.pc = "dispatch" /\ last'.op = "dispatch")
            => LET msg == loop.response
                   b == nc[k].browser
               IN  /\ (msg.kind = "Create" /\ msg.new = made[nc[k].id])
                         => /\ last'.ret = "Ok" /\ loop' = Idle
                            /\ objects' = objects \cup {msg.new}
                            /\ heap'[msg.new] = [typ |-> "BrowserContext", parent |-> b,
                                                 children |-> <<>>]
                            /\ heap'[b].children = Append(heap[b].children, msg.new)
                            /\ bvar'[b].contexts = Append(bvar[b].contexts, msg.new)
                            /\ UNCHANGED <<futures, callbacks>> /\ nc'[k] = nc[k]
                   /\ (msg.kind = "Result" /\ msg.id = nc[k].id)
                         => /\ last'.ret = "Ok" /\ loop' = Idle
                            /\ UNCHANGED <<objects, heap, bvar, futures, callbacks>>
                            /\ nc'[k] = nc[k]]_vars

\* C20 witness: the call was dropped while it waited; afterwards its creation event
\* was dispatched and put the context under the browser, and the Result of the
\* request is the next frame to be read.
C20_Witness ==
    \E k \in 1..MaxNew :
        /\ nc[k].pc = "cancelled" /\ nc[k].id # 0
        /\ last.op = "dispatch" /\ last.arg.kind = "Create" /\ last.ret = "Ok"
        /\ last.arg.new = made[nc[k].id]
        /\ made[nc[k].id] \in objects
        /\ Holds(bvar[nc[k].browser].contexts, made[nc[k].id])
        /\ bvar[nc[k].browser].pending_context = 0
        /\ futures[callbacks[nc[k].id]].state = "dropped"
        /\ wire # <<>> /\ Head(wire).kind = "Result" /\ Head(wire).id = nc[k].id
        /\ loop = Idle

\* C21: in every state each object of the strong table other than the root has its
\* parent in the table, and a step that inserts a node finds the node's parent
\* already in the table.
C21_ParentClosure ==
    /\ [](\A g \in objects \ {Root} : heap[g].parent \in objects)
    /\ [][\A g \in objects' \ objects : heap'[g].parent \in objects]_vars

\* C21 witness: a node was created under a parent that is not the root, and both
\* are in the table.
C21_Witness ==
    /\ last.op = "dispatch" /\ last.arg.kind = "Create" /\ last.ret = "Ok"
    /\ last.arg.guid # Root
    /\ {last.arg.guid, last.arg.new} \subseteq objects
    /\ heap[last.arg.new].parent = last.arg.guid
    /\ heap[last.arg.guid].parent \in objects

\* The table at the moment the k-th removal of a disposal takes place
TableAt(removed, k) == objects \ {removed[m] : m \in 1..(k - 1)}

\* C22: the dispatch of a disposal removes nodes bottom-up: at the moment a node is
\* removed from the strong table, none of the children it knows is in the table.
C22_DisposeBottomUp ==
    [][(loop.pc = "dispatch" /\ loop.response.kind = "Dispose" /\ last'.op = "dispatch")
          => LET removed == last'.ret
             IN  \A k \in 1..Len(removed) :
                    \A j \in 1..Len(heap[removed[k]].children) :
                        heap[removed[k]].children[j] \notin TableAt(removed, k)]_vars

\* C22 witness: a disposal removed a node together with a child of it.
C22_Witness ==
    /\ last.op = "dispatch" /\ last.arg.kind = "Dispose"
    /\ Len(last.ret) >= 2
    /\ last.ret[Len(last.ret)] = last.arg.guid
    /\ \A k \in 1..Len(last.ret) : last.ret[k] \notin objects

\* C23: the ids of the registered calls are exactly 1..id, each with a record of
\* its own, and every send takes the id that follows the counter: an id greater
\* than all earlier ones, under which no call is registered, while the records of
\* the earlier calls stay as they are.
C23_IdsStrictlyIncrease ==
    /\ [](/\ Registered = 1..id
          /\ \A i, j \in Registered : PlaceOf(i) = PlaceOf(j) => i = j)
    /\ [][last'.op = "send_message"
            => /\ id' = id + 1
               /\ last'.arg = id'
               /\ id' \notin Registered
               /\ \A i \in Registered : i < id' /\ callbacks'[i] = callbacks[i]]_vars

\* C23 witness: a second call was sent under id 2 while the call under id 1 was
\* still unanswered.
C23_Witness ==
    /\ last = Last("send_message", 2, "Ok")
    /\ id = 2 /\ Registered = {1, 2}
    /\ futures[PlaceOf(1)].state = "alive" /\ futures[PlaceOf(1)].cell = NoCell
    /\ replied[1] = NoBody

\* C24: the frames try_read has returned are the first frames the driver wrote, in
\* the order written; the loop holds at most the newest of them, reads no further
\* frame until it has dispatched that one, and the dispatch hands exactly that
\* frame to the handler of the node it is addressed to.
C24_DispatchInArrivalOrder ==
    /\ [](/\ Len(got) <= Len(sent) /\ got = SubSeq(sent, 1, Len(got))
          /\ (loop.pc \in {"check_stop", "dispatch"}
                => (Len(got) > 0 /\ loop.response = decode(got[Len(got)]))))
    /\ [][/\ (got' # got) => (loop.pc = "read" /\ got' = Append(got, sent[Len(got) + 1]))
          /\ (loop.pc = "check_stop" /\ loop' # loop) => loop'.pc = "dispatch"
          /\ (loop.pc = "dispatch" /\ loop' # loop)
                => /\ last'.op = "dispatch" /\ last'.arg = decode(got[Len(got)])
                   /\ last'.ret = IF handler_result(AContext, loop.response.method,
                                                    loop.response.ref) = "Ok"
                                  THEN "Handled" ELSE "Logged"
                   /\ loop'.pc = "read"
                   /\ bvar'[AContext].pages =
                         IF last'.ret = "Handled" /\ loop.response.method = "page"
                         THEN Append(bvar[AContext].pages, loop.response.ref)
                         ELSE bvar[AContext].pages]_vars

\* C24 witness: two frames lay in the pipe at once; the first, a "close" event, was
\* dispatched first, and the second, a "page" event, has just reached the handler.
C24_Witness ==
    /\ Len(sent) >= 2 /\ Len(got) = 2
    /\ sent[1] = <<1>> /\ sent[2] = <<0, 0>>
    /\ last.op = "dispatch" /\ last.arg = decode(sent[2]) /\ last.ret = "Handled"
    /\ bvar[AContext].pages = <<APage>>
    /\ loop = Idle

\* C25: a sender that holds the Context lock and is blocked in its write (the
\* child's stdin pipe is full) and a read loop that waits for the lock with a frame
\* it has read never block each other for good: the child can still read its stdin
\* or complete the write it is in.
C25_NoLockDeadlock ==
    (lock = "sender" /\ Len(stdin) = StdinCap /\ loop.pc = "dispatch")
        => (dout = NoFrame \/ Len(wire) < MaxWire)

\* C26: the dispatch of an ordinary event whose guid is not in the strong table
\* (never created, or disposed) runs no handler and returns ObjectNotFound; the loop
\* stops with that error, and its next step is notify_closed with it, which empties
\* the table.
C26_EventToMissingGuidIsFatal ==
    [][/\ (/\ loop.pc = "dispatch" /\ loop.response.kind = "Event"
           /\ loop.response.guid \notin objects
           /\ loop' # loop)
             => /\ last' = Last("dispatch", loop.response, "ObjectNotFound")
                /\ loop' = Failed("ObjectNotFound")
                /\ UNCHANGED <<objects, heap, bvar>>
       /\ (loop.pc = "failed" /\ loop.err = "ObjectNotFound" /\ loop' # loop)
             => /\ last' = Last("notify_closed", 0, "ObjectNotFound")
                /\ loop'.pc = "exited"
                /\ objects' = {}]_vars

\* C26 witness: an event addressed to a guid that a disposal had removed was
\* dispatched and stopped the loop.
C26_Witness ==
    /\ last.op = "dispatch" /\ last.arg.kind = "Event" /\ last.ret = "ObjectNotFound"
    /\ last.arg.guid \in gone
    /\ loop = Failed("ObjectNotFound")
    /\ wire = <<>>

\* C27: when the proxy of a creation message cannot be built (unknown type tag, or
\* the constructor fails), the dispatch returns that error and changes nothing: the
\* strong table, the children of the parent and every contexts list are as before;
\* the loop stops with the error and its next step is notify_closed with it.
C27_FailedConstructionLeavesNoTrace ==
    [][/\ (/\ loop.pc = "dispatch" /\ loop.response.kind = "Create"
           /\ loop.response.guid \in objects
           /\ try_new(loop.response.typ, loop.response.initOk) # "Ok"
           /\ loop' # loop)
             => LET e == try_new(loop.response.typ, loop.response.initOk)
                IN  /\ last' = Last("dispatch", loop.response, e)
                    /\ loop' = Failed(e)
                    /\ UNCHANGED <<objects, heap, bvar>>
       /\ (loop.pc = "failed" /\ loop.err \in {"InvalidParams", "Serde"} /\ loop' # loop)
             => /\ last' = Last("notify_closed", 0, loop.err)
                /\ loop'.pc = "exited"]_vars

\* C27 witness: a creation message with an unknown type tag under a parent that is
\* in the table was dispatched; the loop has stopped, and the guid is neither in
\* the table nor among the children of the parent.
C27_Witness ==
    /\ last.op = "dispatch" /\ last.arg.kind = "Create" /\ last.ret = "InvalidParams"
    /\ last.arg.typ \notin Types
    /\ last.arg.guid \in objects
    /\ last.arg.new \notin objects
    /\ ~Holds(heap[last.arg.guid].children, last.arg.new)
    /\ loop = Failed("InvalidParams")

\* C28: the dispatch of the Result for id i evicts the pending-call record of i:
\* after it the pending-call table holds no record under i.
C28_ResolvedCallEvicted ==
    [][(/\ loop.pc = "dispatch" /\ loop.response.kind = "Result"
        /\ last'.op = "dispatch" /\ last'.ret = "Ok")
          => loop.response.id \notin DOMAIN callbacks']_vars

\* C29: a send_message whose frame write fails returns the error and leaves the
\* Context as it was before the call: the id counter and the pending-call table are
\* unchanged, so no record of the failed request is registered.
C29_FailedSendLeavesContext ==
    [][(last'.op = "send_message" /\ last'.ret # "Ok")
          => /\ last'.ret = "Io"
             /\ UNCHANGED <<id, callbacks, objects>>]_vars

\* C30: the context a new_context call returns, by whichever path, is not one of
\* the contexts the browser already had when the call was issued.
C30_ReturnedContextIsNew ==
    \A k \in 1..MaxNew :
        (nc[k].pc = "done" /\ nc[k].ret[1] = "Ok") => ~Holds(nc[k].existing, nc[k].ret[2])

\* C31: of two new_context calls on the same Browser, neither of which ran into its
\* deadline, a call that left its wait on the liaison branch holds the context its
\* creation event delivered (the other call's writes to the browser's pending slot
\* never end its wait), and a call that completed with a context returned the one
\* the driver made for its own request, which no other call returned.
C31_OverlappingCallsKeepApart ==
    \A k \in Callers :
        nc[k].outcome \in {"Result", "Context"}
            => /\ nc[k].outcome = "Context" => nc[k].rx.st = "value"
               /\ (nc[k].pc = "done" /\ nc[k].ret[1] = "Ok")
                     => /\ nc[k].ret[2] = made[nc[k].id]
                        /\ \A j \in Callers \ {k} :
                              (nc[j].pc = "done" /\ nc[j].ret[1] = "Ok")
                                 => nc[j].ret[2] # nc[k].ret[2]

\* C32: the contexts list of a Browser holds no BrowserContext at two positions.
C32_ContextListedOnce ==
    \A b \in AllGuids :
        \A i, j \in 1..Len(bvar[b].contexts) :
            bvar[b].contexts[i] = bvar[b].contexts[j] => i = j

\* C33: in the state a dispatched "close" event of a BrowserContext leaves, the
\* context is not in the contexts list of its Browser.
C33_ClosedContextLeavesList ==
    (/\ last.op = "dispatch" /\ last.arg.kind = "Event" /\ last.arg.method = "close"
     /\ last.ret = "Handled"
     /\ heap[last.arg.guid].typ = "BrowserContext")
        => ~Holds(bvar[heap[last.arg.guid].parent].contexts, last.arg.guid)

\* C34: the dispatch of a "close" event to a BrowserContext of the table emits
\* Evt::Close to the context's subscribers.
C34_CloseEventEmitsClose ==
    (/\ last.op = "dispatch" /\ last.arg.kind = "Event" /\ last.arg.method = "close"
     /\ last.arg.guid \in objects
     /\ heap[last.arg.guid].typ = "BrowserContext")
        => last.evt = <<"Close">>

\* C35: the construction of a BrowserContext inside dispatch does not wait for the
\* Context lock: whenever the loop holds the lock with a creation message to
\* dispatch, the dispatch can run, and it leaves the tracing and the request_context
\* of the new context unset whatever guids its initializer names.
C35_ConstructionNeverLocks ==
    /\ [](( /\ lock = "loop" /\ loop.pc = "dispatch" /\ loop.response.kind = "Create")
             => ENABLED LoopDispatchLocked)
    /\ [][(/\ loop.pc = "dispatch" /\ loop.response.kind = "Create"
           /\ loop.response.typ = "BrowserContext"
           /\ last'.op = "dispatch" /\ last'.ret = "Ok")
             => /\ lock = "loop"
                /\ bvar'[loop.response.new].tracing = NoRef
                /\ bvar'[loop.response.new].request_context = NoRef
                /\ loop' = Idle /\ lock' = "free"]_vars

\* C35 witness: a BrowserContext was constructed from an initializer that names a
\* Tracing object of the table (and a requestContext guid); its tracing and its
\* request_context are unset.
C35_Witness ==
    /\ last.op = "dispatch" /\ last.arg.kind = "Create" /\ last.ret = "Ok"
    /\ last.arg.typ = "BrowserContext"
    /\ last.arg.tracing \in objects /\ heap[last.arg.tracing].typ = "Tracing"
    /\ last.arg.request_context # NoRef
    /\ last.arg.new \in objects
    /\ bvar[last.arg.new].tracing = NoRef
    /\ bvar[last.arg.new].request_context = NoRef

\* C36: the dispatch of a "route" event of a BrowserContext that names a Route of
\* the table starts the handler of the most recently registered entry with that
\* route when the list has an entry, requests the route's fallback when it has
\* none, emits Evt::Route, and leaves the loop at its read step.
C36_RouteEventHandledOnce ==
    [][(/\ loop.pc = "dispatch" /\ loop.response.kind = "Event"
        /\ loop.response.method = "route"
        /\ loop.response.guid \in objects
        /\ heap[loop.response.guid].typ = "BrowserContext"
        /\ loop.response.ref \in objects /\ heap[loop.response.ref].typ = "Route"
        /\ last'.op = "dispatch")
          => LET routes == bvar[loop.response.guid].routes
                 route == loop.response.ref
             IN  /\ last'.spawn =
                       IF routes # <<>>
                       THEN <<[task |-> "handler", handler |-> routes[Len(routes)].handler,
                               route |-> route]>>
                       ELSE <<[task |-> "fallback", handler |-> 0, route |-> route]>>
                 /\ last'.evt = <<"Route">>
                 /\ loop' = Idle]_vars

\* C37: an entry of the route list that was registered with times = n has had its
\* handler started fewer than n times; the handler is never started more than n
\* times.
C37_TimesBoundsStarts ==
    \A c \in objects :
        \A k \in 1..Len(bvar[c].routes) :
            LET e == bvar[c].routes[k]
            IN  e.n # None => e.started < e.n

\* C39: route_patterns returns the distinct patterns of the route list, each once,
\* in the order of their first registration.
C39_PatternsDistinctInOrder ==
    last.op = "route"
        => LET routes == bvar[last.arg].routes
               first == {k \in 1..Len(routes) :
                            \A j \in 1..(k - 1) : routes[j].pattern # routes[k].pattern}
               nth[m \in 0..Len(routes)] ==
                   IF m = 0 THEN <<>>
                   ELSE IF m \in first THEN Append(nth[m - 1], routes[m].pattern)
                   ELSE nth[m - 1]
           IN  last.ret = nth[Len(routes)]

\* C38: at most one "connect" request is sent for a WebSocketRoute; the call that
\* goes on to send is the first that took the lock of `var`, and every other call
\* on a live route ends with InvalidParams and has sent nothing.
C38_ConnectSentOnce ==
    /\ Cardinality({r \in requests : r.method = "connect"}) <= 1
    /\ \A k \in DOMAIN cts :
          /\ cts[k].rank = 1 <=> (cts[k].pc = "send" \/ cts[k].ret = "Ok")
          /\ cts[k].id # 0 => cts[k].rank = 1
          /\ (cts[k].side = "Server" \/ cts[k].rank > 1)
                => /\ cts[k].pc = "done" /\ cts[k].ret = "InvalidParams"
                   /\ cts[k].id = 0

\* C38 witness: a second call ran while the first had set the flag and had not yet
\* sent: it ended with InvalidParams, and the first call sent the one request.
C38_Witness ==
    \E j, k \in DOMAIN cts :
        /\ cts[j].rank = 1 /\ cts[j].pc = "done" /\ cts[j].ret = "Ok"
        /\ Request(cts[j].id, "connect", AWebSocketRoute) \in requests
        /\ cts[k].rank = 2 /\ cts[k].pc = "done" /\ cts[k].ret = "InvalidParams"
        /\ cts[k].side = "Page"

============================================================================
